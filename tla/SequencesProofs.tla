-------------------------- MODULE SequencesProofs --------------------------
(***************************************************************************)
(* Proofs about Vector, DList and List, for every set of elements, every   *)
(* capacity, and whether or not the allocator refuses.                     *)
(***************************************************************************)
EXTENDS MCSequences, SequenceTheorems, FiniteSetTheorems, TLAPS

-----------------------------------------------------------------------------
(* Sequences, by their elements                                            *)

\* The cells of n elements counted from 1, counted from 0.
LEMMA CellsBelow ==
  ASSUME NEW n \in Nat
  PROVE  \A i \in 1 .. n : i - 1 \in 0 .. n - 1
  OBVIOUS

\* A sequence with one element more at the end.
LEMMA IsAppend ==
  ASSUME NEW S, NEW s \in Seq(S), NEW t \in Seq(S), NEW e \in S,
         Len(t) = Len(s) + 1, t[Len(s) + 1] = e, \A i \in 1 .. Len(s) : t[i] = s[i]
  PROVE  t = Append(s, e)
<1>1. /\ Append(s, e) \in Seq(S) /\ Len(Append(s, e)) = Len(s) + 1
      /\ Append(s, e)[Len(s) + 1] = e /\ \A i \in 1 .. Len(s) : Append(s, e)[i] = s[i]
  BY AppendProperties
<1>2. Len(s) \in Nat
  BY LenProperties
<1>3. \A i \in 1 .. Len(s) + 1 : i \in 1 .. Len(s) \/ i = Len(s) + 1
  BY <1>2
<1> QED
  BY <1>1, <1>3, SeqEqual

\* A sequence with one element more in front.
LEMMA IsPrepend ==
  ASSUME NEW S, NEW s \in Seq(S), NEW t \in Seq(S), NEW e \in S,
         Len(t) = Len(s) + 1, t[1] = e, \A i \in 1 .. Len(s) : t[i + 1] = s[i]
  PROVE  t = <<e>> \o s
<1> DEFINE u == <<e>>
<1>1. u \in Seq(S) /\ Len(u) = 1 /\ u[1] = e
  OBVIOUS
<1> HIDE DEF u
<1>2. /\ u \o s \in Seq(S) /\ Len(u \o s) = 1 + Len(s)
      /\ \A i \in 1 .. 1 + Len(s) : (u \o s)[i] = IF i <= 1 THEN u[i] ELSE s[i - 1]
  <2>1. /\ u \o s \in Seq(S) /\ Len(u \o s) = Len(u) + Len(s)
        /\ \A i \in 1 .. Len(u) + Len(s) :
             (u \o s)[i] = IF i <= Len(u) THEN u[i] ELSE s[i - Len(u)]
    BY <1>1, ConcatProperties, Zenon
  <2> QED
    BY <1>1, <2>1
<1>3. Len(s) \in Nat
  BY LenProperties
<1>4. ASSUME NEW i \in 1 .. 1 + Len(s)
      PROVE  t[i] = (u \o s)[i]
  <2>1. CASE i = 1
    BY <1>1, <1>2, <2>1
  <2>2. CASE i # 1
    <3>1. i - 1 \in 1 .. Len(s) /\ (i - 1) + 1 = i /\ ~(i <= 1)
      BY <1>3, <2>2
    <3>2. t[i] = s[i - 1]
      BY <3>1
    <3> QED
      BY <1>2, <3>1, <3>2
  <2> QED
    BY <2>1, <2>2
<1>5. t = u \o s
  BY <1>2, <1>3, <1>4, SeqEqual
<1> QED
  BY <1>5 DEF u

\* The first elements of a sequence.
LEMMA IsPrefix ==
  ASSUME NEW S, NEW s \in Seq(S), NEW t \in Seq(S),
         Len(t) <= Len(s), \A i \in 1 .. Len(t) : t[i] = s[i]
  PROVE  t = SubSeq(s, 1, Len(t))
<1>1. Len(s) \in Nat /\ Len(t) \in Nat /\ \A i \in 1 .. Len(t) : s[i] \in S
  BY LenProperties, ElementOfSeq
<1>2. /\ SubSeq(s, 1, Len(t)) \in Seq(S)
      /\ Len(SubSeq(s, 1, Len(t))) = IF 1 <= Len(t) THEN Len(t) - 1 + 1 ELSE 0
      /\ \A i \in 1 .. Len(t) - 1 + 1 : SubSeq(s, 1, Len(t))[i] = s[1 + i - 1]
  BY <1>1, SubSeqProperties
<1>3. Len(SubSeq(s, 1, Len(t))) = Len(t)
  BY <1>1, <1>2
<1>4. \A i \in 1 .. Len(t) : SubSeq(s, 1, Len(t))[i] = s[i]
  <2>1. \A i \in 1 .. Len(t) : i \in 1 .. Len(t) - 1 + 1 /\ 1 + i - 1 = i
    BY <1>1
  <2> QED
    BY <1>2, <2>1
<1> QED
  BY <1>2, <1>3, <1>4, SeqEqual

\* All but the first element of a sequence.
LEMMA IsTail ==
  ASSUME NEW S, NEW s \in Seq(S), NEW t \in Seq(S),
         Len(s) = Len(t) + 1, \A i \in 1 .. Len(t) : t[i] = s[i + 1]
  PROVE  s # <<>> /\ Head(s) = s[1] /\ t = Tail(s)
<1>1. s # <<>>
  BY LenProperties, EmptySeq
<1>2. /\ Tail(s) \in Seq(S) /\ Len(Tail(s)) = Len(s) - 1
      /\ \A i \in 1 .. Len(Tail(s)) : Tail(s)[i] = s[i + 1]
  BY <1>1, HeadTailProperties
<1>3. Len(Tail(s)) = Len(t)
  BY <1>2, LenProperties
<1>4. t = Tail(s)
  BY <1>2, <1>3, SeqEqual
<1> QED
  BY <1>1, <1>4

-----------------------------------------------------------------------------
(* Vector: growing, shrinking and destroying                               *)

\* A push makes room for one element more.
LEMMA GrownFacts ==
  ASSUME TypeOK
  PROVE  Grown \in Nat /\ length < Grown /\ capacity <= Grown
  BY DEF TypeOK, Grown

\* The elements that stay fit in the array that maybe_shrink asks for; one that is
\* smaller than before is at most half full.
LEMMA ShrunkFacts ==
  ASSUME TypeOK, NEW n \in 0 .. length - 1
  PROVE  /\ Shrunk(n) \in Nat /\ n <= Shrunk(n) /\ Shrunk(n) <= capacity
         /\ n > 0 /\ Shrunk(n) < capacity => 2 * n <= Shrunk(n)
<1>1. capacity \in Nat /\ length \in Nat /\ length <= capacity
  BY DEF TypeOK
<1>2. CASE n = 0
  BY <1>1, <1>2 DEF Shrunk
<1>3. CASE n # 0 /\ capacity > 1 /\ n <= capacity \div 4
  <2>1. Shrunk(n) = capacity \div 2
    BY <1>3 DEF Shrunk
  <2>2. 2 * n <= capacity \div 2 /\ capacity \div 2 <= capacity /\ capacity \div 2 \in Nat
    BY <1>1, <1>3
  <2> QED
    BY <1>1, <2>1, <2>2
<1>4. CASE n # 0 /\ ~(capacity > 1 /\ n <= capacity \div 4)
  BY <1>1, <1>4 DEF Shrunk
<1> QED
  BY <1>2, <1>3, <1>4

\* Cells that are moved hold what they held.
LEMMA MovedFacts ==
  ASSUME TypeOK, NEW c \in Nat
  PROVE  /\ Moved(c) \in [0 .. c - 1 -> Elem \cup {None}]
         /\ \A i \in 0 .. c - 1 : i < capacity => Moved(c)[i] = data[i]
<1>1. \A i \in 0 .. c - 1 : i < capacity => i \in 0 .. capacity - 1
  BY DEF TypeOK
<1> QED
  BY <1>1 DEF TypeOK, Moved

\* A destructor run is counted for the elements of some cells.
LEMMA DestroyCellsType ==
  ASSUME TypeOK, NEW I, DestroyCells(I)
  PROVE  destroyed' \in [Elem -> Nat]
  BY DEF DestroyCells, TypeOK

\* After maybe_shrink the array has room for the n elements left, and they are the
\* first n of the cells d.
LEMMA MaybeShrinkFacts ==
  ASSUME TypeOK, NEW n \in 0 .. length - 1, NEW d,
         d \in [0 .. capacity - 1 -> Elem \cup {None}], MaybeShrink(n, d)
  PROVE  /\ capacity' \in Nat /\ n \in 0 .. capacity'
         /\ data' \in [0 .. capacity' - 1 -> Elem \cup {None}]
         /\ \A i \in 0 .. n - 1 : data'[i] = d[i]
         /\ n > 0 /\ capacity' < capacity => 2 * n <= capacity'
<1>1. PICK c \in {Shrunk(n)} \cup (IF OOM /\ n > 0 THEN {capacity} ELSE {}) :
        capacity' = c /\ data' = [i \in 0 .. c - 1 |-> d[i]]
  BY DEF MaybeShrink
<1>2. c \in Nat /\ n <= c /\ c <= capacity /\ capacity \in Nat /\ n \in Nat
      /\ (n > 0 /\ c < capacity => 2 * n <= c)
  BY <1>1, ShrunkFacts DEF TypeOK
<1>3. \A i \in 0 .. c - 1 : i \in 0 .. capacity - 1
  BY <1>2
<1>4. data' \in [0 .. c - 1 -> Elem \cup {None}]
  BY <1>1, <1>3
<1>5. \A i \in 0 .. n - 1 : i \in 0 .. c - 1
  BY <1>2
<1> QED
  BY <1>1, <1>2, <1>4, <1>5

\* The same when all elements leave, of a vector that may be empty already.
LEMMA EmptiedFacts ==
  ASSUME TypeOK, MaybeShrink(0, data)
  PROVE  capacity' = 0 /\ data' \in [0 .. capacity' - 1 -> Elem \cup {None}]
<1>1. capacity' = 0 /\ data' = [i \in 0 .. 0 - 1 |-> data[i]]
  BY DEF MaybeShrink, Shrunk
<1>2. 0 .. 0 - 1 = {}
  OBVIOUS
<1> QED
  BY <1>1, <1>2

-----------------------------------------------------------------------------
(* Vector: types                                                           *)

\* The cells of a pop_front.
FrontCells ==
  [i \in 0 .. capacity - 1 |-> IF i \in 1 .. length - 1 THEN data[i - 1] ELSE data[i]]

\* They are cells.
LEMMA FrontCellsType ==
  ASSUME TypeOK
  PROVE  FrontCells \in [0 .. capacity - 1 -> Elem \cup {None}]
<1>1. \A i \in 1 .. length - 1 : i - 1 \in 0 .. capacity - 1
  BY DEF TypeOK
<1> QED
  BY <1>1 DEF TypeOK, FrontCells

\* What a push of e at the end leaves.
LEMMA PushBackFacts ==
  ASSUME TypeOK, NEW e \in fresh, PushBack(e) \/ Extend(e)
  PROVE  /\ TypeOK'
         /\ length' = length + 1 /\ fresh' = fresh \ {e} /\ UNCHANGED <<out, destroyed>>
         /\ data'[length] = e
         /\ \A i \in 0 .. length - 1 : data'[i] = data[i]
<1> DEFINE c == capacity'
<1>1. /\ c \in Nat /\ length < c /\ length \in Nat /\ capacity \in Nat /\ length <= capacity
      /\ data' = [Moved(c) EXCEPT ![length] = e]
      /\ length' = length + 1 /\ fresh' = fresh \ {e} /\ UNCHANGED <<open, out, destroyed>>
      /\ open
  <2>1. CASE PushBack(e)
    BY <2>1, GrownFacts DEF PushBack, TypeOK
  <2>2. CASE Extend(e)
    BY <2>2 DEF Extend, TypeOK
  <2> QED
    BY <2>1, <2>2
<1> HIDE DEF c
<1>2. /\ Moved(c) \in [0 .. c - 1 -> Elem \cup {None}]
      /\ \A i \in 0 .. c - 1 : i < capacity => Moved(c)[i] = data[i]
  BY <1>1, MovedFacts
<1>3. length \in 0 .. c - 1 /\ \A i \in 0 .. length - 1 : i \in 0 .. c - 1 /\ i < capacity
  BY <1>1
<1>4. e \in Elem
  BY DEF TypeOK
<1>5. data' \in [0 .. c - 1 -> Elem \cup {None}]
  BY <1>1, <1>2, <1>3, <1>4
<1>6. TypeOK'
  <2>1. length' \in 0 .. c /\ fresh' \subseteq Elem
    BY <1>1 DEF TypeOK
  <2>2. capacity' = c
    BY DEF c
  <2> QED
    BY <1>1, <1>5, <2>1, <2>2 DEF TypeOK
<1> QED
  BY <1>1, <1>2, <1>3, <1>6

\* What a push of e at the front leaves.
LEMMA PushFrontFacts ==
  ASSUME TypeOK, NEW e \in fresh, PushFront(e)
  PROVE  /\ TypeOK'
         /\ length' = length + 1 /\ fresh' = fresh \ {e} /\ UNCHANGED <<out, destroyed>>
         /\ data'[0] = e
         /\ \A i \in 1 .. length : data'[i] = data[i - 1]
<1> DEFINE c == Grown
<1>1. /\ c \in Nat /\ length < c /\ length \in Nat /\ capacity \in Nat /\ length <= capacity
      /\ capacity <= c
  BY GrownFacts DEF TypeOK
<1>2. /\ data' = [i \in 0 .. c - 1 |->
                    IF i = 0 THEN e ELSE IF i <= length THEN data[i - 1] ELSE Moved(c)[i]]
      /\ capacity' = c /\ open /\ UNCHANGED open
      /\ length' = length + 1 /\ fresh' = fresh \ {e} /\ UNCHANGED <<out, destroyed>>
  BY DEF PushFront
<1> HIDE DEF c
<1>3. Moved(c) \in [0 .. c - 1 -> Elem \cup {None}]
  BY <1>1, MovedFacts
<1>4. \A i \in 1 .. length : i \in 0 .. c - 1 /\ i - 1 \in 0 .. capacity - 1 /\ i # 0 /\ i <= length
  BY <1>1
<1>5. \A i \in 0 .. c - 1 : i = 0 \/ (i <= length => i \in 1 .. length)
  BY <1>1
<1>6. 0 \in 0 .. c - 1 /\ e \in Elem
  BY <1>1 DEF TypeOK
<1>7. \A i \in 1 .. length : data[i - 1] \in Elem \cup {None}
  BY <1>4 DEF TypeOK
<1>8. data' \in [0 .. c - 1 -> Elem \cup {None}]
  BY <1>2, <1>3, <1>5, <1>6, <1>7
<1>9. TypeOK'
  BY <1>1, <1>2, <1>8 DEF TypeOK
<1> QED
  BY <1>2, <1>4, <1>6, <1>9

\* What a pop leaves: after one of the front, only the first cell is certain.
LEMMA PopFacts ==
  ASSUME TypeOK, PopBack \/ PopFront
  PROVE  /\ TypeOK'
         /\ length > 0 /\ length' = length - 1 /\ UNCHANGED fresh
         /\ length' > 0 /\ capacity' < capacity => 2 * length' <= capacity'
         /\ PopBack => \A i \in 0 .. length' - 1 : data'[i] = data[i]
<1>1. length \in Nat /\ length \in 0 .. capacity /\ capacity \in Nat
  BY DEF TypeOK
<1>2. PICK d \in [0 .. capacity - 1 -> Elem \cup {None}] :
        /\ MaybeShrink(length - 1, d)
        /\ PopBack => d = data
  <2>1. CASE PopBack
    BY <2>1 DEF PopBack, TypeOK
  <2>2. CASE PopFront /\ ~PopBack
    BY <2>2, FrontCellsType DEF PopFront, FrontCells
  <2> QED
    BY <2>1, <2>2
<1>3. length > 0 /\ length' = length - 1 /\ UNCHANGED <<open, fresh>> /\ open
  BY <1>1 DEF PopBack, PopFront
<1>4. length - 1 \in 0 .. length - 1
  BY <1>1, <1>3
<1>5. /\ capacity' \in Nat /\ length - 1 \in 0 .. capacity'
      /\ data' \in [0 .. capacity' - 1 -> Elem \cup {None}]
      /\ \A i \in 0 .. (length - 1) - 1 : data'[i] = d[i]
      /\ length - 1 > 0 /\ capacity' < capacity => 2 * (length - 1) <= capacity'
  BY <1>2, <1>4, MaybeShrinkFacts
<1>6. out' \in Elem \cup {None}
  <2>1. length - 1 \in 0 .. capacity - 1 /\ 0 \in 0 .. capacity - 1
    BY <1>1, <1>3
  <2> QED
    BY <2>1 DEF PopBack, PopFront, TypeOK
<1>7. destroyed' \in [Elem -> Nat]
  BY DestroyCellsType DEF PopBack, PopFront
<1>8. TypeOK'
  BY <1>3, <1>5, <1>6, <1>7 DEF TypeOK
<1> QED
  BY <1>2, <1>3, <1>5, <1>8

\* What Truncate, Clear and Destroy leave.
LEMMA CutFacts ==
  ASSUME TypeOK, NEW n \in Nat, \/ Truncate(n)
                                \/ ((Clear \/ Destroy) /\ n = 0)
  PROVE  /\ TypeOK'
         /\ n \in 0 .. length /\ length' = n /\ UNCHANGED <<out, fresh>>
         /\ DestroyCells(n .. length - 1)
         /\ \A i \in 0 .. n - 1 : data'[i] = data[i]
         /\ n > 0 => capacity' = capacity
<1>1. /\ n \in 0 .. length /\ length' = n /\ UNCHANGED <<out, fresh>>
      /\ DestroyCells(n .. length - 1) /\ open
  BY DEF TypeOK, Truncate, Clear, Destroy
<1>2. destroyed' \in [Elem -> Nat]
  BY <1>1, DestroyCellsType
<1>3. CASE Truncate(n)
  BY <1>1, <1>2, <1>3 DEF Truncate, TypeOK
<1>4. CASE Clear /\ n = 0
  BY <1>1, <1>2, <1>4, EmptiedFacts DEF Clear, TypeOK
<1>5. CASE Destroy /\ n = 0
  <2>1. open' = FALSE /\ capacity' = 0 /\ data' = <<>> /\ length' = 0
    BY <1>5 DEF Destroy
  <2>2. data' \in [0 .. capacity' - 1 -> Elem \cup {None}]
    <3>1. 0 .. 0 - 1 = {}
      OBVIOUS
    <3> QED
      BY <2>1, <3>1
  <2>3. TypeOK'
    <3>1. length' \in 0 .. capacity' /\ capacity' \in Nat
      BY <2>1
    <3>3. open' \in BOOLEAN
      BY <2>1, Zenon
    <3>2. out' \in Elem \cup {None} /\ fresh' \subseteq Elem
      BY <1>1 DEF TypeOK
    <3> QED
      BY <1>2, <2>1, <2>2, <3>1, <3>2, <3>3 DEF TypeOK
  <2> QED
    BY <1>1, <1>5, <2>1, <2>3
<1> QED
  BY <1>3, <1>4, <1>5

\* What Reserve and ShrinkToFit leave.
LEMMA ReallocFacts ==
  ASSUME TypeOK, (\E c \in 1 .. MaxCapacity : Reserve(c)) \/ ShrinkToFit
  PROVE  /\ TypeOK'
         /\ UNCHANGED <<length, out, fresh, destroyed>>
         /\ \A i \in 0 .. length - 1 : data'[i] = data[i]
<1>1. PICK c \in Nat :
        /\ open /\ length <= c /\ capacity' = c /\ data' = Moved(c)
        /\ UNCHANGED <<open, length, out, fresh, destroyed>>
  <2>1. CASE ShrinkToFit
    BY <2>1 DEF ShrinkToFit, TypeOK
  <2>2. CASE \E c \in 1 .. MaxCapacity : Reserve(c)
    <3>1. PICK c \in 1 .. MaxCapacity : Reserve(c)
      BY <2>2
    <3> QED
      BY <3>1, CapacityAssumption DEF Reserve, TypeOK
  <2> QED
    BY <2>1, <2>2
<1>2. /\ Moved(c) \in [0 .. c - 1 -> Elem \cup {None}]
      /\ \A i \in 0 .. c - 1 : i < capacity => Moved(c)[i] = data[i]
  BY MovedFacts
<1>3. TypeOK'
  BY <1>1, <1>2 DEF TypeOK
<1>4. \A i \in 0 .. length - 1 : i \in 0 .. c - 1 /\ i < capacity
  BY <1>1 DEF TypeOK
<1> QED
  BY <1>1, <1>2, <1>3, <1>4

\* What Create leaves.
LEMMA CreateFacts ==
  ASSUME TypeOK, NEW c \in InitialCaps, Create(c)
  PROVE  /\ TypeOK'
         /\ length = 0 /\ length' = 0 /\ UNCHANGED <<out, fresh, destroyed>>
<1>1. c \in Nat /\ length = 0
  BY CapacityAssumption DEF TypeOK, Create
<1>2. data' \in [0 .. c - 1 -> Elem \cup {None}]
  BY DEF Create
<1> QED
  BY <1>1, <1>2 DEF Create, TypeOK

\* Every operation of the vector is one of these.
LEMMA VectorStep ==
  ASSUME TypeOK, [Next]_vars
  PROVE  \/ \E c \in InitialCaps : Create(c)
         \/ \E e \in fresh : PushBack(e) \/ Extend(e)
         \/ \E e \in fresh : PushFront(e)
         \/ PopBack \/ PopFront
         \/ \E n \in Nat : Truncate(n) \/ ((Clear \/ Destroy) /\ n = 0)
         \/ (\E c \in 1 .. MaxCapacity : Reserve(c)) \/ ShrinkToFit
         \/ UNCHANGED vars
<1>1. CASE \E n \in 0 .. MaxCapacity : Truncate(n)
  <2>1. PICK n \in 0 .. MaxCapacity : Truncate(n)
    BY <1>1
  <2>2. n \in Nat
    BY CapacityAssumption
  <2> QED
    BY <2>1, <2>2
<1>2. CASE Clear \/ Destroy
  BY <1>2
<1>3. CASE ~((\E n \in 0 .. MaxCapacity : Truncate(n)) \/ Clear \/ Destroy)
  BY <1>3 DEF Next, PushFails, PopFails
<1> QED
  BY <1>1, <1>2, <1>3

-----------------------------------------------------------------------------
(* Vector: each element is destroyed once                                  *)

\* Every element stored was pushed, and is in one cell.
StoredOnce ==
  /\ \A i \in 0 .. length - 1 : data[i] \in Elem \ fresh
  /\ \A i, j \in 0 .. length - 1 : i # j => data[i] # data[j]

VectorInv == DestroyedOnce /\ StoredOnce

\* The invariant does not depend on the cells beyond the length.
LEMMA SameStored ==
  ASSUME VectorInv, TypeOK', UNCHANGED <<length, fresh, destroyed>>,
         \A i \in 0 .. length - 1 : data'[i] = data[i]
  PROVE  VectorInv'
<1>1. Stored' = Stored
  BY DEF Stored
<1> QED
  BY <1>1 DEF VectorInv, DestroyedOnce, StoredOnce

\* An element pushed in between the others is stored.
LEMMA OneMoreStored ==
  ASSUME VectorInv, TypeOK', NEW e \in fresh, NEW p \in 0 .. length,
         length' = length + 1, fresh' = fresh \ {e}, UNCHANGED destroyed,
         data'[p] = e,
         \A i \in 0 .. p - 1 : data'[i] = data[i],
         \A i \in p + 1 .. length : data'[i] = data[i - 1]
  PROVE  VectorInv'
<1>1. length \in Nat /\ e \in Elem /\ p \in Nat
  BY DEF VectorInv, DestroyedOnce, TypeOK
<1> DEFINE from(i) == IF i < p THEN i ELSE i - 1
<1>2. ASSUME NEW i \in 0 .. length, i # p
      PROVE  from(i) \in 0 .. length - 1 /\ data'[i] = data[from(i)]
  <2>1. CASE i < p
    BY <1>1, <2>1
  <2>2. CASE i > p
    BY <1>1, <2>2
  <2> QED
    BY <1>1, <1>2, <2>1, <2>2
<1>3. ASSUME NEW i \in 0 .. length - 1
      PROVE  \E j \in 0 .. length : j # p /\ data'[j] = data[i]
  <2>1. CASE i < p
    BY <1>1, <2>1
  <2>2. CASE i >= p
    <3>1. i + 1 \in p + 1 .. length /\ (i + 1) - 1 = i /\ i + 1 # p
      BY <1>1, <2>2
    <3>2. data'[i + 1] = data[i]
      BY <3>1
    <3> QED
      BY <1>1, <3>1, <3>2
  <2> QED
    BY <1>1, <2>1, <2>2
<1>4. ASSUME NEW i \in 0 .. length, NEW j \in 0 .. length, i # p, j # p, i # j
      PROVE  from(i) # from(j)
  BY <1>1, <1>4
<1> HIDE DEF from
<1>5. \A i \in 0 .. length - 1 : data[i] \in Elem \ fresh
  BY DEF VectorInv, StoredOnce
<1>6. Stored' = Stored \cup {e}
  <2>1. Stored' = {data'[i] : i \in 0 .. length}
    <3>1. 0 .. (length + 1) - 1 = 0 .. length
      BY <1>1
    <3> QED
      BY <3>1 DEF Stored
  <2> QED
    BY <1>1, <1>2, <1>3, <2>1 DEF Stored
<1>7. StoredOnce'
  <2>1. length' - 1 = length
    BY <1>1
  <2>2. \A i \in 0 .. length : data'[i] \in Elem \ fresh'
    BY <1>1, <1>2, <1>5
  <2>3. ASSUME NEW i \in 0 .. length, NEW j \in 0 .. length, i # j
        PROVE  data'[i] # data'[j]
    <3>1. CASE i # p /\ j # p
      BY <1>2, <1>4, <2>3, <3>1 DEF VectorInv, StoredOnce
    <3>2. CASE i = p \/ j = p
      BY <1>2, <1>5, <2>3, <3>2
    <3> QED
      BY <3>1, <3>2
  <2> QED
    BY <2>1, <2>2, <2>3 DEF StoredOnce
<1>8. \A x \in Elem : x \in fresh \cup Stored <=> x \in fresh' \cup Stored'
  BY <1>6
<1>9. DestroyedOnce'
  BY <1>8 DEF VectorInv, DestroyedOnce
<1> QED
  BY <1>7, <1>9 DEF VectorInv

\* The elements behind the first n are destroyed, and not stored any more.
LEMMA FirstStay ==
  ASSUME VectorInv, TypeOK', NEW n \in 0 .. length,
         length' = n, UNCHANGED fresh, DestroyCells(n .. length - 1),
         \A i \in 0 .. n - 1 : data'[i] = data[i]
  PROVE  VectorInv'
<1>1. length \in Nat /\ destroyed \in [Elem -> Nat]
  BY DEF VectorInv, DestroyedOnce, TypeOK
<1>2. \A i \in 0 .. n - 1 : i \in 0 .. length - 1
  BY <1>1
<1>3. StoredOnce'
  BY <1>2 DEF VectorInv, StoredOnce
<1>4. Stored' = {data[i] : i \in 0 .. n - 1}
  BY DEF Stored
<1>5. ASSUME NEW e \in Elem
      PROVE  destroyed'[e] = IF e \in fresh' \cup Stored' THEN 0 ELSE 1
  <2>1. destroyed'[e] = destroyed[e] + (IF \E i \in n .. length - 1 : data[i] = e THEN 1 ELSE 0)
    BY DEF DestroyCells
  <2>2. destroyed[e] = IF e \in fresh \cup Stored THEN 0 ELSE 1
    BY DEF VectorInv, DestroyedOnce
  <2>3. CASE \E i \in n .. length - 1 : data[i] = e
    <3>1. PICK i \in n .. length - 1 : data[i] = e
      BY <2>3
    <3>2. i \in 0 .. length - 1
      BY <1>1
    <3>3. e \in Stored /\ e \notin fresh
      BY <3>1, <3>2 DEF Stored, VectorInv, StoredOnce
    <3>4. \A j \in 0 .. n - 1 : j \in 0 .. length - 1 /\ j # i
      BY <1>1
    <3>5. e \notin Stored'
      BY <1>4, <3>1, <3>2, <3>4 DEF VectorInv, StoredOnce
    <3> QED
      BY <2>1, <2>2, <2>3, <3>3, <3>5
  <2>4. CASE ~\E i \in n .. length - 1 : data[i] = e
    <3>1. \A i \in 0 .. length - 1 : i \in 0 .. n - 1 \/ i \in n .. length - 1
      BY <1>1
    <3>2. e \in Stored <=> e \in Stored'
      BY <1>2, <1>4, <2>4, <3>1 DEF Stored
    <3> QED
      BY <1>1, <2>1, <2>2, <2>4, <3>2
  <2> QED
    BY <2>3, <2>4
<1>6. DestroyedOnce'
  BY <1>5 DEF DestroyedOnce
<1> QED
  BY <1>3, <1>6 DEF VectorInv

\* A vector that does not exist yet stores nothing.
LEMMA VectorInit == Init => VectorInv
<1> SUFFICES ASSUME Init PROVE VectorInv
  OBVIOUS
<1>1. TypeOK
  <2>1. open \in BOOLEAN /\ fresh \subseteq Elem
    BY Zenon DEF Init
  <2>2. data \in [0 .. capacity - 1 -> Elem \cup {None}]
    <3>1. 0 .. 0 - 1 = {}
      OBVIOUS
    <3> QED
      BY <3>1 DEF Init
  <2> QED
    BY <2>1, <2>2 DEF Init, TypeOK
<1>2. 0 .. 0 - 1 = {}
  OBVIOUS
<1>3. Stored = {} /\ StoredOnce
  BY <1>2 DEF Init, Stored, StoredOnce
<1> QED
  BY <1>1, <1>3 DEF Init, VectorInv, DestroyedOnce

\* The types of the vector do not depend on what pop_front does with the elements.
LEMMA VectorTypes == TypeOK /\ [Next]_vars => TypeOK'
<1> SUFFICES ASSUME TypeOK, [Next]_vars PROVE TypeOK'
  OBVIOUS
<1>1. CASE UNCHANGED vars
  BY <1>1 DEF vars, TypeOK
<1> QED
  BY <1>1, VectorStep, CreateFacts, PushBackFacts, PushFrontFacts, PopFacts, CutFacts,
     ReallocFacts

\* The only element of a vector, popped at the front, is gone as if it were popped at
\* the back.
LEMMA PopOnly ==
  ASSUME TypeOK, MaxFront <= 1, PopBack \/ PopFront
  PROVE  /\ DestroyCells(length' .. length - 1) /\ out' = data[length - 1]
         /\ \A i \in 0 .. length' - 1 : data'[i] = data[i]
<1>1. length \in Nat /\ length > 0 /\ length' = length - 1
  BY PopFacts DEF TypeOK
<1>2. CASE PopBack
  <2>1. {length - 1} = length' .. length - 1
    BY <1>1
  <2> QED
    BY <1>2, <2>1, PopFacts DEF PopBack
<1>3. CASE PopFront
  <2>1. length = 1
    BY <1>1, <1>3, FlagsAssumption DEF PopFront
  <2>2. {0} = length' .. length - 1 /\ 0 = length - 1 /\ 0 .. length' - 1 = {}
    BY <1>1, <2>1
  <2> QED
    BY <1>3, <2>2 DEF PopFront
<1> QED
  BY <1>2, <1>3

\* No operation loses an element or destroys one that is stored, as long as clients
\* pop at the front only where the elements that move are none.
LEMMA VectorNext ==
  ASSUME MaxFront <= 1
  PROVE  VectorInv /\ [Next]_vars => VectorInv'
<1> SUFFICES ASSUME VectorInv, [Next]_vars PROVE VectorInv'
  OBVIOUS
<1>1. TypeOK /\ TypeOK' /\ length \in Nat
  BY VectorTypes DEF VectorInv, DestroyedOnce, TypeOK
<1>2. CASE \E c \in InitialCaps : Create(c)
  <2>1. length = 0 /\ length' = 0 /\ UNCHANGED <<out, fresh, destroyed>>
    BY <1>1, <1>2, CreateFacts
  <2>2. 0 .. 0 - 1 = {}
    OBVIOUS
  <2> QED
    BY <1>1, <2>1, <2>2, SameStored
<1>3. ASSUME NEW e \in fresh, PushBack(e) \/ Extend(e)
      PROVE  VectorInv'
  <2>1. length \in 0 .. length /\ length + 1 .. length = {}
    BY <1>1
  <2> QED
    BY <1>1, <1>3, <2>1, PushBackFacts, OneMoreStored
<1>4. ASSUME NEW e \in fresh, PushFront(e)
      PROVE  VectorInv'
  <2>1. 0 \in 0 .. length /\ 0 .. 0 - 1 = {} /\ 0 + 1 = 1
    BY <1>1
  <2>2. \A i \in 0 + 1 .. length : data'[i] = data[i - 1]
    BY <1>1, <1>4, <2>1, PushFrontFacts
  <2> QED
    BY <1>1, <1>4, <2>1, <2>2, PushFrontFacts, OneMoreStored
<1>5. CASE PopBack \/ PopFront
  <2>1. length' \in 0 .. length /\ UNCHANGED fresh
    BY <1>1, <1>5, PopFacts
  <2> QED
    BY <1>1, <1>5, <2>1, PopOnly, FirstStay
<1>6. ASSUME NEW n \in Nat, Truncate(n) \/ ((Clear \/ Destroy) /\ n = 0)
      PROVE  VectorInv'
  BY <1>1, <1>6, CutFacts, FirstStay
<1>7. CASE (\E c \in 1 .. MaxCapacity : Reserve(c)) \/ ShrinkToFit
  BY <1>1, <1>7, ReallocFacts, SameStored
<1>8. CASE UNCHANGED vars
  BY <1>1, <1>8, SameStored DEF vars
<1> QED
  BY <1>1, <1>2, <1>3, <1>4, <1>5, <1>6, <1>7, <1>8, VectorStep

\* Whatever reallocations happen and are refused, each element that leaves the vector
\* is destroyed once and the others are not.
THEOREM VectorDestroyedOnce ==
  ASSUME MaxFront <= 1
  PROVE  Spec => []DestroyedOnce
<1>1. VectorInv => DestroyedOnce
  BY DEF VectorInv
<1> QED
  BY <1>1, VectorInit, VectorNext, PTL DEF Spec

\* A pop that makes the array smaller leaves it at most half full: growing and
\* shrinking never alternate.
THEOREM VectorShrinksWithSlack == Spec => ShrinksWithSlack
<1>1. Init => TypeOK
  BY VectorInit DEF VectorInv, DestroyedOnce
<1>2. TypeOK /\ [Next]_vars =>
        [length' < length /\ length' > 0 /\ capacity' < capacity
           => 2 * length' <= capacity']_vars
  <2> SUFFICES ASSUME TypeOK, [Next]_vars,
                      length' < length, length' > 0, capacity' < capacity
               PROVE  2 * length' <= capacity'
    OBVIOUS
  <2>1. capacity \in Nat /\ length \in Nat
    BY DEF TypeOK
  <2>2. CASE PopBack \/ PopFront
    BY <2>2, PopFacts
  <2>3. ASSUME NEW n \in Nat, Truncate(n) \/ ((Clear \/ Destroy) /\ n = 0)
        PROVE  FALSE
    BY <2>1, <2>3, CutFacts
  <2>4. CASE (\E c \in InitialCaps : Create(c)) \/ UNCHANGED vars
    BY <2>1, <2>4, CreateFacts DEF vars
  <2>5. ASSUME NEW e \in fresh, PushBack(e) \/ Extend(e) \/ PushFront(e)
        PROVE  FALSE
    BY <2>1, <2>5, PushBackFacts, PushFrontFacts
  <2>6. CASE (\E c \in 1 .. MaxCapacity : Reserve(c)) \/ ShrinkToFit
    BY <2>1, <2>6, ReallocFacts
  <2> QED
    BY <2>2, <2>3, <2>4, <2>5, <2>6, VectorStep
<1> QED
  BY <1>1, <1>2, VectorTypes, PTL DEF Spec, ShrinksWithSlack

-----------------------------------------------------------------------------
(* Vector: the sequence it implements                                      *)

\* The contents of a vector, by its cells.
ContentsAre ==
  /\ Contents \in Seq(Elem)
  /\ Len(Contents) = length /\ length \in Nat
  /\ \A i \in 1 .. length : Contents[i] = data[i - 1]

\* The contents are a sequence of elements.
LEMMA ContentsFacts == VectorInv => ContentsAre
<1> SUFFICES ASSUME VectorInv PROVE ContentsAre
  OBVIOUS
<1>1. length \in Nat
  BY DEF VectorInv, DestroyedOnce, TypeOK
<1>2. \A i \in 1 .. length : i - 1 \in 0 .. length - 1
  BY <1>1
<1>3. \A i \in 1 .. length : data[i - 1] \in Elem
  BY <1>2 DEF VectorInv, StoredOnce
<1>4. Contents \in [1 .. length -> Elem]
  BY <1>3 DEF Contents
<1>5. Contents \in Seq(Elem) /\ DOMAIN Contents = 1 .. length
  BY <1>1, <1>4, SeqDef
<1>6. Len(Contents) = length
  BY <1>1, <1>5, LenProperties
<1> QED
  BY <1>1, <1>5, <1>6 DEF ContentsAre, Contents

\* The same of the next state.
LEMMA ContentsFactsNext == VectorInv' => ContentsAre'
  BY ContentsFacts, PTL

\* Cells that stay where they are stay the first elements.
LEMMA FirstRefine ==
  ASSUME ContentsAre, ContentsAre', length' <= length,
         \A i \in 0 .. length' - 1 : data'[i] = data[i]
  PROVE  Contents' = SubSeq(Contents, 1, length')
<1> DEFINE s == Contents
           t == Contents'
<1>1. /\ s \in Seq(Elem) /\ t \in Seq(Elem) /\ Len(s) = length /\ Len(t) = length'
      /\ length' \in Nat /\ length \in Nat
  BY DEF ContentsAre
<1>2. \A i \in 1 .. length' : t[i] = s[i]
  <2>1. \A i \in 1 .. length' : i - 1 \in 0 .. length' - 1
    BY <1>1, CellsBelow
  <2>2. \A i \in 1 .. length' : i \in 1 .. length
    BY <1>1
  <2> QED
    BY <2>1, <2>2 DEF ContentsAre
<1> HIDE DEF s, t
<1>3. t = SubSeq(s, 1, length')
  BY <1>1, <1>2, IsPrefix
<1> QED
  BY <1>3 DEF s, t

\* Every operation of the vector is one of a sequence, or leaves the sequence alone.
LEMMA VectorRefines ==
  ASSUME MaxFront <= 1, VectorInv, VectorInv', [Next]_vars
  PROVE  [Sequence!Next]_<<Contents, out>>
<1>1. TypeOK /\ ContentsAre /\ ContentsAre' /\ length \in Nat
  <2>1. TypeOK
    BY DEF VectorInv, DestroyedOnce
  <2>2. ContentsAre /\ ContentsAre'
    BY ContentsFacts, ContentsFactsNext
  <2> QED
    BY <2>1, <2>2 DEF TypeOK
<1> DEFINE s == Contents
           t == Contents'
<1>2. /\ s \in Seq(Elem) /\ Len(s) = length /\ \A i \in 1 .. length : s[i] = data[i - 1]
      /\ t \in Seq(Elem) /\ Len(t) = length' /\ \A i \in 1 .. length' : t[i] = data'[i - 1]
  BY <1>1 DEF ContentsAre
<1>3. ASSUME length' = length, \A i \in 0 .. length - 1 : data'[i] = data[i]
      PROVE  t = s
  <2>1. \A i \in 1 .. length : i - 1 \in 0 .. length - 1
    BY <1>1
  <2> HIDE DEF s, t
  <2> QED
    BY <1>2, <1>3, <2>1, SeqEqual
<1>4. CASE \E c \in InitialCaps : Create(c)
  <2>1. length = 0 /\ length' = 0 /\ UNCHANGED out
    BY <1>1, <1>4, CreateFacts
  <2>2. 0 .. 0 - 1 = {}
    OBVIOUS
  <2> QED
    BY <1>3, <2>1, <2>2
<1>5. ASSUME NEW e \in fresh, PushBack(e) \/ Extend(e)
      PROVE  Sequence!Append_
  <2>1. /\ length' = length + 1 /\ UNCHANGED out /\ data'[length] = e /\ e \in Elem
        /\ \A i \in 0 .. length - 1 : data'[i] = data[i]
    BY <1>1, <1>5, PushBackFacts DEF TypeOK
  <2>2. t[length + 1] = e
    <3>1. length + 1 \in 1 .. length' /\ (length + 1) - 1 = length
      BY <1>1, <2>1
    <3> HIDE DEF t
    <3> QED
      BY <1>2, <2>1, <3>1
  <2>3. \A i \in 1 .. length : t[i] = s[i]
    <3>1. \A i \in 1 .. length : i \in 1 .. length' /\ i - 1 \in 0 .. length - 1
      BY <1>1, <2>1
    <3> HIDE DEF s, t
    <3> QED
      BY <1>2, <2>1, <3>1
  <2>4. t = Append(s, e)
    <3> HIDE DEF s, t
    <3> QED
      BY <1>2, <2>1, <2>2, <2>3, IsAppend
  <2> QED
    BY <2>1, <2>4 DEF Sequence!Append_
<1>6. ASSUME NEW e \in fresh, PushFront(e)
      PROVE  Sequence!Prepend
  <2>1. /\ length' = length + 1 /\ UNCHANGED out /\ data'[0] = e /\ e \in Elem
        /\ \A i \in 1 .. length : data'[i] = data[i - 1]
    BY <1>1, <1>6, PushFrontFacts DEF TypeOK
  <2>2. t[1] = e
    <3>1. 1 \in 1 .. length' /\ 1 - 1 = 0
      BY <1>1, <2>1
    <3> HIDE DEF t
    <3> QED
      BY <1>2, <2>1, <3>1
  <2>3. \A i \in 1 .. length : t[i + 1] = s[i]
    <3>1. \A i \in 1 .. length : i + 1 \in 1 .. length' /\ (i + 1) - 1 = i
      BY <1>1, <2>1
    <3> HIDE DEF s, t
    <3> QED
      BY <1>2, <2>1, <3>1
  <2>4. t = <<e>> \o s
    <3> HIDE DEF s, t
    <3> QED
      BY <1>2, <2>1, <2>2, <2>3, IsPrepend
  <2> QED
    BY <2>1, <2>4 DEF Sequence!Prepend
<1>7. CASE PopBack \/ PopFront
  <2>1. /\ length > 0 /\ length' = length - 1 /\ out' = data[length - 1]
        /\ \A i \in 0 .. length' - 1 : data'[i] = data[i]
    BY <1>1, <1>7, PopFacts, PopOnly
  <2>2. Contents' = SubSeq(Contents, 1, length')
    BY <1>1, <2>1, FirstRefine
  <2>3. s[length] = data[length - 1] /\ s # <<>>
    <3>1. length \in 1 .. length
      BY <1>1, <2>1
    <3> HIDE DEF s
    <3> QED
      BY <1>2, <2>1, <3>1, EmptySeq
  <2> QED
    BY <1>2, <2>1, <2>2, <2>3 DEF Sequence!RemoveLast, Sequence!Next
<1>8. ASSUME NEW n \in Nat, Truncate(n) \/ ((Clear \/ Destroy) /\ n = 0)
      PROVE  Sequence!Truncate
  <2>1. /\ length' \in 0 .. length /\ length' <= length /\ UNCHANGED out
        /\ \A i \in 0 .. length' - 1 : data'[i] = data[i]
    BY <1>1, <1>8, CutFacts
  <2>2. Contents' = SubSeq(Contents, 1, length')
    BY <1>1, <2>1, FirstRefine
  <2> QED
    BY <1>2, <2>1, <2>2 DEF Sequence!Truncate
<1>9. CASE (\E c \in 1 .. MaxCapacity : Reserve(c)) \/ ShrinkToFit
  BY <1>1, <1>3, <1>9, ReallocFacts
<1>10. CASE UNCHANGED vars
  BY <1>10 DEF vars, Contents
<1> QED
  BY <1>1, <1>4, <1>5, <1>6, <1>7, <1>8, <1>9, <1>10, VectorStep DEF Sequence!Next

\* The vector is a sequence, across every growth and every shrink.
THEOREM VectorImplementsSequence ==
  ASSUME MaxFront <= 1
  PROVE  Spec => ImplementsSequence
<1>1. Init => Sequence!Init
  <2>1. 1 .. 0 = {}
    OBVIOUS
  <2> QED
    BY <2>1, NoneAssumption DEF Init, Contents, Sequence!Init
<1>2. VectorInv /\ VectorInv' /\ [Next]_vars => [Sequence!Next]_<<Contents, out>>
  BY VectorRefines
<1> QED
  BY <1>1, <1>2, VectorInit, VectorNext, PTL DEF Spec, ImplementsSequence, Sequence!Spec

-----------------------------------------------------------------------------
(* Lists: the path their pointers make                                     *)

\* Every set of naturals has a least element: what recursion along a list needs.
LEMMA NatMin ==
  ASSUME NEW T, T \subseteq Nat, T # {}
  PROVE  \E x \in T : \A y \in T : x <= y
<1> DEFINE R == {p \in Nat \X Nat : p[1] < p[2]}
<1>1. IsWellFoundedOn(R, Nat)
  <2>1. R = OpToRel(<, Nat)
    BY Zenon DEF OpToRel
  <2> QED
    BY <2>1, NatLessThanWellFounded, Zenon
<1>2. \A x, y \in Nat : y < x => <<y, x>> \in R
  OBVIOUS
<1> HIDE DEF R
<1>3. PICK x \in T : \A y \in T : ~ (<<y, x>> \in R)
  BY <1>1, WFMin
<1>4. ASSUME NEW y \in T
      PROVE  x <= y
  <2>1. x \in Nat /\ y \in Nat
    OBVIOUS
  <2>2. ~(y < x)
    BY <1>2, <1>3, <2>1
  <2> QED
    BY <2>1, <2>2
<1> QED
  BY <1>4

\* The node at place i of a path, or the null pointer in front of it and behind it.
At(s, i) == IF i \in 1 .. Len(s) THEN s[i] ELSE None

NodesOf(s) == {s[i] : i \in 1 .. Len(s)}

\* s is a list of elements, none of them twice.
Distinct(s) == s \in Seq(Elem) /\ \A i, j \in 1 .. Len(s) : s[i] = s[j] => i = j

\* From hd, the pointers nx lead through the nodes s, and there are no others.
Forward(hd, nx, s) ==
  /\ Distinct(s)
  /\ hd = At(s, 1) /\ DOMAIN nx = NodesOf(s)
  /\ \A i \in 1 .. Len(s) : nx[s[i]] = At(s, i + 1)

\* From tl, the pointers pv lead through the nodes s from the last to the first.
Backward(tl, pv, s) ==
  /\ Distinct(s)
  /\ tl = At(s, Len(s)) /\ DOMAIN pv = NodesOf(s)
  /\ \A i \in 1 .. Len(s) : pv[s[i]] = At(s, i - 1)

\* A path with e put behind its first p nodes.
Ins(s, p, e) ==
  [i \in 1 .. Len(s) + 1 |-> IF i <= p THEN s[i] ELSE IF i = p + 1 THEN e ELSE s[i - 1]]

\* A path has as many nodes as it is long.
LEMMA PathCount ==
  ASSUME NEW s, Distinct(s)
  PROVE  IsFiniteSet(NodesOf(s)) /\ Cardinality(NodesOf(s)) = Len(s) /\ Len(s) \in Nat
<1>1. Len(s) \in Nat /\ DOMAIN s = 1 .. Len(s) /\ s \in [1 .. Len(s) -> Elem]
  BY LenProperties DEF Distinct
<1>2. s \in [1 .. Len(s) -> NodesOf(s)]
  BY <1>1 DEF NodesOf
<1>3. s \in Bijection(1 .. Len(s), NodesOf(s))
  <2>1. \A i, j \in 1 .. Len(s) : s[i] = s[j] => i = j
    BY DEF Distinct
  <2>2. \A x \in NodesOf(s) : \E i \in 1 .. Len(s) : s[i] = x
    BY DEF NodesOf
  <2> QED
    BY <1>1, <1>2, <2>1, <2>2 DEF Bijection, Injection, Surjection, IsInjective
<1>4. ExistsBijection(1 .. Len(s), NodesOf(s))
  BY <1>3 DEF ExistsBijection
<1>5. Cardinality(NodesOf(s)) = Len(s)
  BY <1>1, <1>4, FS_CountingElements
<1>6. IsFiniteSet(NodesOf(s))
  BY <1>1, <1>4, FS_NatBijection
<1> QED
  BY <1>1, <1>5, <1>6

\* Nodes are not null.
LEMMA AtFacts ==
  ASSUME NEW s, Distinct(s), NEW i \in Int
  PROVE  /\ At(s, i) \in NodesOf(s) \cup {None}
         /\ At(s, i) # None <=> i \in 1 .. Len(s)
         /\ i \in 1 .. Len(s) => At(s, i) = s[i] /\ s[i] \in Elem
<1>1. i \in 1 .. Len(s) => s[i] \in Elem
  BY ElementOfSeq DEF Distinct
<1> QED
  BY <1>1, NoneAssumption DEF At, NodesOf

\* What a path with one node more is.
LEMMA InsFacts ==
  ASSUME NEW s, Distinct(s), NEW p \in 0 .. Len(s), NEW e \in Elem, e \notin NodesOf(s)
  PROVE  /\ Distinct(Ins(s, p, e)) /\ Len(Ins(s, p, e)) = Len(s) + 1 /\ Len(s) \in Nat
         /\ NodesOf(Ins(s, p, e)) = NodesOf(s) \cup {e}
         /\ Ins(s, p, e)[p + 1] = e
         /\ \A i \in 1 .. p : Ins(s, p, e)[i] = s[i]
         /\ \A i \in p + 1 .. Len(s) : Ins(s, p, e)[i + 1] = s[i]
<1> DEFINE t == Ins(s, p, e)
           n == Len(s)
<1>1. n \in Nat /\ p \in Nat /\ \A i \in 1 .. n : s[i] \in Elem
  BY LenProperties, ElementOfSeq DEF Distinct
<1>2. t = [i \in 1 .. n + 1 |-> IF i <= p THEN s[i] ELSE IF i = p + 1 THEN e ELSE s[i - 1]]
  BY DEF Ins
<1> HIDE DEF t
<1>3. /\ t[p + 1] = e
      /\ \A i \in 1 .. p : t[i] = s[i]
      /\ \A i \in p + 1 .. n : t[i + 1] = s[i]
  <2>1. t[p + 1] = e
    <3>1. p + 1 \in 1 .. n + 1 /\ ~(p + 1 <= p)
      BY <1>1
    <3> QED
      BY <1>2, <3>1
  <2>2. ASSUME NEW i \in 1 .. p PROVE t[i] = s[i]
    <3>1. i \in 1 .. n + 1 /\ i <= p
      BY <1>1
    <3> QED
      BY <1>2, <3>1
  <2>3. ASSUME NEW i \in p + 1 .. n PROVE t[i + 1] = s[i]
    <3>1. i + 1 \in 1 .. n + 1 /\ ~(i + 1 <= p) /\ i + 1 # p + 1 /\ (i + 1) - 1 = i
      BY <1>1
    <3> QED
      BY <1>2, <3>1
  <2> QED
    BY <2>1, <2>2, <2>3
<1> DEFINE from(i) == IF i <= p THEN i ELSE i - 1
<1>4. ASSUME NEW i \in 1 .. n + 1, i # p + 1
      PROVE  from(i) \in 1 .. n /\ t[i] = s[from(i)]
  <2>1. CASE i <= p
    BY <1>1, <1>3, <2>1
  <2>2. CASE ~(i <= p)
    <3>1. i - 1 \in 1 .. n
      BY <1>1, <1>4, <2>2
    <3> QED
      BY <1>2, <1>4, <2>2, <3>1
  <2> QED
    BY <2>1, <2>2
<1>5. ASSUME NEW i \in 1 .. n + 1, NEW j \in 1 .. n + 1, i # p + 1, j # p + 1, i # j
      PROVE  from(i) # from(j)
  BY <1>1, <1>5
<1> HIDE DEF from
<1>6. ASSUME NEW i \in 1 .. n + 1, i # p + 1
      PROVE  t[i] \in NodesOf(s) /\ t[i] \in Elem
  BY <1>1, <1>4, <1>6 DEF NodesOf
<1>7. t \in [1 .. n + 1 -> Elem] /\ t \in Seq(Elem) /\ Len(t) = n + 1
  <2>1. \A i \in 1 .. n + 1 : t[i] \in Elem
    BY <1>3, <1>6
  <2>2. t \in [1 .. n + 1 -> Elem] /\ n + 1 \in Nat
    BY <1>1, <1>2, <2>1
  <2>3. t \in Seq(Elem)
    BY <2>2, SeqDef
  <2> QED
    BY <2>2, <2>3, LenProperties
<1>8. ASSUME NEW i \in 1 .. n + 1, NEW j \in 1 .. n + 1, t[i] = t[j]
      PROVE  i = j
  <2>1. CASE i # p + 1 /\ j # p + 1
    BY <1>4, <1>5, <1>8, <2>1 DEF Distinct
  <2>2. CASE i = p + 1 \/ j = p + 1
    BY <1>3, <1>6, <1>8, <2>2
  <2> QED
    BY <2>1, <2>2
<1>9. NodesOf(t) = NodesOf(s) \cup {e}
  <2>1. NodesOf(t) \subseteq NodesOf(s) \cup {e}
    BY <1>3, <1>6, <1>7 DEF NodesOf
  <2>2. e \in NodesOf(t)
    <3>1. p + 1 \in 1 .. n + 1
      BY <1>1
    <3> QED
      BY <1>3, <1>7, <3>1 DEF NodesOf
  <2>3. ASSUME NEW i \in 1 .. n
        PROVE  s[i] \in NodesOf(t)
    <3>1. CASE i <= p
      <4>1. i \in 1 .. p /\ i \in 1 .. n + 1
        BY <1>1, <3>1
      <4> QED
        BY <1>3, <1>7, <4>1 DEF NodesOf
    <3>2. CASE ~(i <= p)
      <4>1. i \in p + 1 .. n /\ i + 1 \in 1 .. n + 1
        BY <1>1, <3>2
      <4>2. t[i + 1] = s[i]
        BY <1>3, <4>1
      <4> QED
        BY <1>7, <4>1, <4>2 DEF NodesOf
    <3> QED
      BY <3>1, <3>2
  <2> QED
    BY <2>1, <2>2, <2>3 DEF NodesOf
<1>10. Distinct(t)
  BY <1>7, <1>8 DEF Distinct
<1> QED
  BY <1>1, <1>3, <1>7, <1>9, <1>10 DEF t

\* Linking e behind the first p nodes, forward.
LEMMA InsForward ==
  ASSUME NEW hd, NEW nx, NEW s, Forward(hd, nx, s),
         NEW p \in 0 .. Len(s), NEW e \in Elem, e \notin NodesOf(s)
  PROVE  Forward(IF At(s, p) = None THEN e ELSE hd,
                 [n \in DOMAIN nx \cup {e} |->
                    IF n = e THEN At(s, p + 1) ELSE IF n = At(s, p) THEN e ELSE nx[n]],
                 Ins(s, p, e))
<1> DEFINE t == Ins(s, p, e)
           ny == [n \in DOMAIN nx \cup {e} |->
                    IF n = e THEN At(s, p + 1) ELSE IF n = At(s, p) THEN e ELSE nx[n]]
<1>1. /\ Distinct(s) /\ hd = At(s, 1) /\ DOMAIN nx = NodesOf(s)
      /\ \A i \in 1 .. Len(s) : nx[s[i]] = At(s, i + 1)
  BY DEF Forward
<1>2. /\ Distinct(t) /\ Len(t) = Len(s) + 1 /\ NodesOf(t) = NodesOf(s) \cup {e}
      /\ t[p + 1] = e /\ Len(s) \in Nat
      /\ \A i \in 1 .. p : t[i] = s[i]
      /\ \A i \in p + 1 .. Len(s) : t[i + 1] = s[i]
  BY <1>1, InsFacts
<1>3. p \in Nat /\ p <= Len(s)
  BY <1>2
<1> HIDE DEF t
<1>4. DOMAIN ny = NodesOf(t)
  BY <1>1, <1>2
<1>5. (IF At(s, p) = None THEN e ELSE hd) = At(t, 1)
  <2>1. CASE p = 0
    BY <1>2, <1>3, <2>1 DEF At
  <2>2. CASE p # 0
    <3>1. p \in 1 .. Len(s) /\ 1 \in 1 .. p /\ 1 \in 1 .. Len(s) /\ 1 \in 1 .. Len(s) + 1
      BY <1>2, <1>3, <2>2
    <3>2. At(s, p) # None
      BY <1>1, <3>1, AtFacts
    <3> QED
      BY <1>1, <1>2, <3>1, <3>2 DEF At
  <2> QED
    BY <2>1, <2>2
<1>6. At(s, p + 1) = At(t, p + 2)
  <2>1. CASE p = Len(s)
    BY <1>2, <1>3, <2>1 DEF At
  <2>2. CASE p # Len(s)
    <3>1. p + 1 \in p + 1 .. Len(s) /\ (p + 1) + 1 = p + 2
          /\ p + 1 \in 1 .. Len(s) /\ p + 2 \in 1 .. Len(s) + 1
      BY <1>2, <1>3, <2>2
    <3> QED
      BY <1>2, <3>1 DEF At
  <2> QED
    BY <2>1, <2>2
<1>7. ASSUME NEW i \in 1 .. Len(s)
      PROVE  s[i] # e /\ s[i] \in DOMAIN nx /\ ny[s[i]] = IF i = p THEN e ELSE At(s, i + 1)
  <2>1. s[i] # e /\ s[i] \in DOMAIN nx
    BY <1>1 DEF NodesOf
  <2>2. s[i] = At(s, p) <=> i = p
    <3>1. CASE p = 0
      BY <1>1, <1>2, <3>1, AtFacts DEF At
    <3>2. CASE p # 0
      <4>1. p \in 1 .. Len(s)
        BY <1>2, <1>3, <3>2
      <4> QED
        BY <1>1, <4>1 DEF At, Distinct
    <3> QED
      BY <3>1, <3>2
  <2> QED
    BY <1>1, <2>1, <2>2
<1>8. ASSUME NEW i \in 1 .. Len(t)
      PROVE  ny[t[i]] = At(t, i + 1)
  <2>1. i \in Int /\ 1 <= i /\ i <= Len(s) + 1
    BY <1>2
  <2>2. CASE i < p
    <3>1. i \in 1 .. p /\ i + 1 \in 1 .. p /\ i \in 1 .. Len(s) /\ i + 1 \in 1 .. Len(s)
          /\ i + 1 \in 1 .. Len(s) + 1 /\ i # p
      BY <1>2, <1>3, <2>1, <2>2
    <3> QED
      BY <1>2, <1>7, <3>1 DEF At
  <2>3. CASE i = p
    <3>1. i \in 1 .. p /\ i \in 1 .. Len(s) /\ i + 1 \in 1 .. Len(s) + 1
      BY <1>2, <1>3, <2>1, <2>3
    <3> QED
      BY <1>2, <1>7, <2>3, <3>1 DEF At
  <2>4. CASE i = p + 1
    BY <1>2, <1>3, <1>6, <2>4
  <2>5. CASE i > p + 1
    <3>1. i - 1 \in p + 1 .. Len(s) /\ i - 1 \in 1 .. Len(s) /\ (i - 1) + 1 = i /\ i - 1 # p
      BY <1>2, <1>3, <2>1, <2>5
    <3>2. t[i] = s[i - 1]
      BY <1>2, <3>1
    <3>3. ny[t[i]] = At(s, i)
      BY <1>7, <3>1, <3>2
    <3>4. CASE i = Len(s) + 1
      BY <1>2, <3>3, <3>4 DEF At
    <3>5. CASE i # Len(s) + 1
      <4>1. i <= Len(s)
        BY <1>2, <2>1, <3>5
      <4>2. i \in p + 1 .. Len(s) /\ i \in 1 .. Len(s)
        BY <1>2, <1>3, <2>1, <2>5, <4>1
      <4>3. i + 1 \in 1 .. Len(s) + 1
        BY <1>2, <2>1, <4>1
      <4> QED
        BY <1>2, <3>3, <4>2, <4>3 DEF At
    <3> QED
      BY <3>4, <3>5
  <2> QED
    BY <1>3, <2>1, <2>2, <2>3, <2>4, <2>5
<1> HIDE DEF ny
<1>9. Forward(IF At(s, p) = None THEN e ELSE hd, ny, t)
  BY <1>2, <1>4, <1>5, <1>8 DEF Forward
<1> QED
  BY <1>9 DEF ny, t

\* Linking e behind the first p nodes, backward.
LEMMA InsBackward ==
  ASSUME NEW tl, NEW pv, NEW s, Backward(tl, pv, s),
         NEW p \in 0 .. Len(s), NEW e \in Elem, e \notin NodesOf(s)
  PROVE  Backward(IF At(s, p + 1) = None THEN e ELSE tl,
                  [n \in DOMAIN pv \cup {e} |->
                     IF n = e THEN At(s, p) ELSE IF n = At(s, p + 1) THEN e ELSE pv[n]],
                  Ins(s, p, e))
<1> DEFINE t == Ins(s, p, e)
           py == [n \in DOMAIN pv \cup {e} |->
                    IF n = e THEN At(s, p) ELSE IF n = At(s, p + 1) THEN e ELSE pv[n]]
<1>1. /\ Distinct(s) /\ tl = At(s, Len(s)) /\ DOMAIN pv = NodesOf(s)
      /\ \A i \in 1 .. Len(s) : pv[s[i]] = At(s, i - 1)
  BY DEF Backward
<1>2. /\ Distinct(t) /\ Len(t) = Len(s) + 1 /\ NodesOf(t) = NodesOf(s) \cup {e}
      /\ t[p + 1] = e /\ Len(s) \in Nat
      /\ \A i \in 1 .. p : t[i] = s[i]
      /\ \A i \in p + 1 .. Len(s) : t[i + 1] = s[i]
  BY <1>1, InsFacts
<1>3. p \in Nat /\ p <= Len(s)
  BY <1>2
<1> HIDE DEF t
<1>4. DOMAIN py = NodesOf(t)
  BY <1>1, <1>2
<1>5. (IF At(s, p + 1) = None THEN e ELSE tl) = At(t, Len(t))
  <2>1. Len(t) \in 1 .. Len(t)
    BY <1>2
  <2>2. CASE p = Len(s)
    BY <1>2, <1>3, <2>1, <2>2 DEF At
  <2>3. CASE p # Len(s)
    <3>1. p + 1 \in 1 .. Len(s) /\ Len(s) \in p + 1 .. Len(s)
      BY <1>2, <1>3, <2>3
    <3>2. Len(s) \in 1 .. Len(s)
      BY <1>2, <1>3, <2>3
    <3>3. At(s, p + 1) # None
      BY <1>1, <3>1, AtFacts
    <3> QED
      BY <1>1, <1>2, <2>1, <3>1, <3>2, <3>3 DEF At
  <2> QED
    BY <2>2, <2>3
<1>6. At(s, p) = At(t, p)
  <2>1. CASE p = 0
    BY <1>2, <1>3, <2>1 DEF At
  <2>2. CASE p # 0
    <3>1. p \in 1 .. p /\ p \in 1 .. Len(s) /\ p \in 1 .. Len(s) + 1
      BY <1>2, <1>3, <2>2
    <3> QED
      BY <1>2, <3>1 DEF At
  <2> QED
    BY <2>1, <2>2
<1>7. ASSUME NEW i \in 1 .. Len(s)
      PROVE  py[s[i]] = IF i = p + 1 THEN e ELSE At(s, i - 1)
  <2>1. s[i] # e /\ s[i] \in DOMAIN pv
    BY <1>1 DEF NodesOf
  <2>2. s[i] = At(s, p + 1) <=> i = p + 1
    <3>1. CASE p = Len(s)
      <4>1. At(s, p + 1) = None /\ i # p + 1
        BY <1>2, <1>3, <3>1 DEF At
      <4> QED
        BY <1>1, <4>1, AtFacts, NoneAssumption
    <3>2. CASE p # Len(s)
      <4>1. p + 1 \in 1 .. Len(s)
        BY <1>2, <1>3, <3>2
      <4> QED
        BY <1>1, <4>1 DEF At, Distinct
    <3> QED
      BY <3>1, <3>2
  <2> QED
    BY <1>1, <2>1, <2>2
<1>8. ASSUME NEW i \in 1 .. Len(t)
      PROVE  py[t[i]] = At(t, i - 1)
  <2>1. i \in Int /\ 1 <= i /\ i <= Len(s) + 1
    BY <1>2
  <2>2. CASE i <= p
    <3>1. i \in 1 .. p /\ i \in 1 .. Len(s) /\ i # p + 1
      BY <1>2, <1>3, <2>1, <2>2
    <3>2. py[t[i]] = At(s, i - 1)
      BY <1>2, <1>7, <3>1
    <3>3. CASE i = 1
      BY <1>2, <3>2, <3>3 DEF At
    <3>4. CASE i # 1
      <4>1. i - 1 \in 1 .. p /\ i - 1 \in 1 .. Len(s)
        BY <1>2, <1>3, <2>1, <2>2, <3>4
      <4>2. i - 1 \in 1 .. Len(s) + 1
        BY <1>2, <2>1, <3>4
      <4> QED
        BY <1>2, <3>2, <4>1, <4>2 DEF At
    <3> QED
      BY <3>3, <3>4
  <2>3. CASE i = p + 1
    <3>1. py[e] = At(s, p)
      OBVIOUS
    <3>2. i - 1 = p
      BY <1>3, <2>3
    <3> QED
      BY <1>2, <1>6, <2>3, <3>1, <3>2
  <2>4. CASE i > p + 1
    <3>1. i - 1 \in p + 1 .. Len(s) /\ i - 1 \in 1 .. Len(s) /\ (i - 1) + 1 = i
      BY <1>2, <1>3, <2>1, <2>4
    <3>2. t[i] = s[i - 1] /\ i - 1 \in 1 .. Len(s) + 1
      BY <1>2, <3>1
    <3>3. CASE i - 1 = p + 1
      BY <1>2, <1>7, <3>1, <3>2, <3>3 DEF At
    <3>4. CASE i - 1 # p + 1
      <4>1. (i - 1) - 1 \in p + 1 .. Len(s) /\ ((i - 1) - 1) + 1 = i - 1
        BY <1>2, <1>3, <2>1, <2>4, <3>4
      <4>2. (i - 1) - 1 \in 1 .. Len(s)
        BY <1>2, <1>3, <4>1
      <4>3. t[i - 1] = s[(i - 1) - 1]
        BY <1>2, <4>1
      <4>4. py[t[i]] = At(s, (i - 1) - 1)
        BY <1>7, <3>1, <3>2, <3>4
      <4> QED
        BY <1>2, <3>2, <4>2, <4>3, <4>4 DEF At
    <3> QED
      BY <3>3, <3>4
  <2> QED
    BY <1>3, <2>1, <2>2, <2>3, <2>4
<1> HIDE DEF py
<1>9. Backward(IF At(s, p + 1) = None THEN e ELSE tl, py, t)
  BY <1>2, <1>4, <1>5, <1>8 DEF Backward
<1> QED
  BY <1>9 DEF py, t

\* What a path without its first node is.
LEMMA RestFacts ==
  ASSUME NEW s, Distinct(s), Len(s) > 0
  PROVE  /\ Distinct(Tail(s)) /\ Len(Tail(s)) = Len(s) - 1 /\ Len(s) \in Nat
         /\ NodesOf(Tail(s)) = NodesOf(s) \ {s[1]}
         /\ \A i \in 1 .. Len(s) - 1 : Tail(s)[i] = s[i + 1]
         /\ \A i \in Int : i >= 1 => At(Tail(s), i) = At(s, i + 1)
<1> DEFINE t == Tail(s)
<1>1. s \in Seq(Elem) /\ Len(s) \in Nat /\ s # <<>>
      /\ \A i, j \in 1 .. Len(s) : s[i] = s[j] => i = j
  BY LenProperties, EmptySeq DEF Distinct
<1>2. /\ t \in Seq(Elem) /\ Len(t) = Len(s) - 1
      /\ \A i \in 1 .. Len(t) : t[i] = s[i + 1]
  BY <1>1, HeadTailProperties
<1> HIDE DEF t
<1>3. \A i \in 1 .. Len(t) : i + 1 \in 1 .. Len(s) /\ i + 1 # 1
  BY <1>1, <1>2
<1>4. Distinct(t)
  <2>1. ASSUME NEW i \in 1 .. Len(t), NEW j \in 1 .. Len(t), t[i] = t[j]
        PROVE  i = j
    <3>1. i + 1 = j + 1
      BY <1>1, <1>2, <1>3, <2>1
    <3> QED
      BY <3>1
  <2> QED
    BY <1>2, <2>1 DEF Distinct
<1>5. NodesOf(t) = NodesOf(s) \ {s[1]}
  <2>1. 1 \in 1 .. Len(s)
    BY <1>1
  <2>2. NodesOf(t) \subseteq NodesOf(s) \ {s[1]}
    BY <1>1, <1>2, <1>3, <2>1 DEF NodesOf
  <2>3. ASSUME NEW i \in 1 .. Len(s), s[i] # s[1]
        PROVE  s[i] \in NodesOf(t)
    <3>1. i # 1
      BY <2>3
    <3>2. i - 1 \in 1 .. Len(t) /\ (i - 1) + 1 = i
      BY <1>1, <1>2, <3>1
    <3>3. t[i - 1] = s[i]
      BY <1>2, <3>2
    <3> QED
      BY <3>2, <3>3 DEF NodesOf
  <2> QED
    BY <2>2, <2>3 DEF NodesOf
<1>6. ASSUME NEW i \in Int, i >= 1
      PROVE  At(t, i) = At(s, i + 1)
  <2>1. i \in 1 .. Len(t) <=> i + 1 \in 1 .. Len(s)
    BY <1>1, <1>2, <1>6
  <2> QED
    BY <1>2, <2>1 DEF At
<1> QED
  BY <1>1, <1>2, <1>4, <1>5, <1>6 DEF t

\* Unlinking the first node, forward.
LEMMA RestForward ==
  ASSUME NEW hd, NEW nx, NEW s, Forward(hd, nx, s), Len(s) > 0,
         NEW ny, DOMAIN ny = DOMAIN nx \ {hd}, \A x \in DOMAIN ny : ny[x] = nx[x]
  PROVE  Forward(nx[hd], ny, Tail(s))
<1> DEFINE t == Tail(s)
<1>1. /\ Distinct(s) /\ hd = At(s, 1) /\ DOMAIN nx = NodesOf(s)
      /\ \A i \in 1 .. Len(s) : nx[s[i]] = At(s, i + 1)
  BY DEF Forward
<1>2. /\ Distinct(t) /\ Len(t) = Len(s) - 1 /\ Len(s) \in Nat
      /\ NodesOf(t) = NodesOf(s) \ {s[1]}
      /\ \A i \in 1 .. Len(s) - 1 : t[i] = s[i + 1]
      /\ \A i \in Int : i >= 1 => At(t, i) = At(s, i + 1)
  BY <1>1, RestFacts
<1> HIDE DEF t
<1>3. 1 \in 1 .. Len(s)
  BY <1>2
<1>4. hd = s[1] /\ nx[hd] = At(t, 1)
  BY <1>1, <1>2, <1>3 DEF At
<1>5. ASSUME NEW i \in 1 .. Len(t)
      PROVE  ny[t[i]] = At(t, i + 1)
  <2>1. i + 1 \in 1 .. Len(s) /\ i \in 1 .. Len(s) - 1 /\ i + 1 >= 1
    BY <1>2
  <2>2. t[i] \in DOMAIN ny
    BY <1>1, <1>2, <1>4 DEF NodesOf
  <2>3. ny[t[i]] = At(s, (i + 1) + 1)
    BY <1>1, <1>2, <2>1, <2>2
  <2> QED
    BY <1>2, <2>1, <2>3
<1>6. Forward(nx[hd], ny, t)
  BY <1>1, <1>2, <1>4, <1>5 DEF Forward
<1> QED
  BY <1>6 DEF t

\* Unlinking the first node, backward.
LEMMA RestBackward ==
  ASSUME NEW tl, NEW pv, NEW s, Backward(tl, pv, s), Len(s) > 0,
         NEW py, DOMAIN py = DOMAIN pv \ {At(s, 1)},
         \A x \in DOMAIN py : py[x] = IF x = At(s, 2) THEN None ELSE pv[x]
  PROVE  Backward(IF At(s, 2) = None THEN None ELSE tl, py, Tail(s))
<1> DEFINE t == Tail(s)
<1>1. /\ Distinct(s) /\ tl = At(s, Len(s)) /\ DOMAIN pv = NodesOf(s)
      /\ \A i \in 1 .. Len(s) : pv[s[i]] = At(s, i - 1)
  BY DEF Backward
<1>2. /\ Distinct(t) /\ Len(t) = Len(s) - 1 /\ Len(s) \in Nat
      /\ NodesOf(t) = NodesOf(s) \ {s[1]}
      /\ \A i \in 1 .. Len(s) - 1 : t[i] = s[i + 1]
      /\ \A i \in Int : i >= 1 => At(t, i) = At(s, i + 1)
  BY <1>1, RestFacts
<1> HIDE DEF t
<1>3. 1 \in 1 .. Len(s) /\ At(s, 1) = s[1]
  BY <1>2 DEF At
<1>4. (IF At(s, 2) = None THEN None ELSE tl) = At(t, Len(t))
  <2>1. CASE Len(s) = 1
    BY <1>2, <2>1 DEF At
  <2>2. CASE Len(s) # 1
    <3>1. 2 \in 1 .. Len(s) /\ Len(t) >= 1 /\ Len(t) \in Int /\ Len(t) + 1 = Len(s)
      BY <1>2, <2>2
    <3> QED
      BY <1>1, <1>2, <3>1, AtFacts
  <2> QED
    BY <2>1, <2>2
<1>5. ASSUME NEW i \in 1 .. Len(t)
      PROVE  py[t[i]] = At(t, i - 1)
  <2>1. i + 1 \in 1 .. Len(s) /\ i \in 1 .. Len(s) - 1
    BY <1>2
  <2>2. t[i] \in DOMAIN py /\ t[i] = s[i + 1]
    BY <1>1, <1>2, <1>3, <2>1 DEF NodesOf
  <2>3. CASE i = 1
    <3>1. t[i] = At(s, 2)
      BY <2>1, <2>2, <2>3 DEF At
    <3> QED
      BY <2>2, <2>3, <3>1 DEF At
  <2>4. CASE i # 1
    <3>1. 2 \in 1 .. Len(s) /\ i + 1 # 2
      <4>1. Len(s) >= 2
        BY <1>2, <2>1
      <4> QED
        BY <1>2, <2>4, <4>1
    <3>2. t[i] # At(s, 2)
      BY <1>1, <2>1, <2>2, <3>1 DEF At, Distinct
    <3>3. py[t[i]] = At(s, (i + 1) - 1)
      BY <1>1, <2>1, <2>2, <3>2
    <3>4. (i + 1) - 1 = (i - 1) + 1 /\ i - 1 >= 1 /\ i - 1 \in Int
      BY <2>1, <2>4
    <3> QED
      BY <1>2, <3>3, <3>4
  <2> QED
    BY <2>3, <2>4
<1>6. Backward(IF At(s, 2) = None THEN None ELSE tl, py, t)
  BY <1>1, <1>2, <1>3, <1>4, <1>5 DEF Backward
<1> QED
  BY <1>6 DEF t

\* A path without its last node.
Front(s) == SubSeq(s, 1, Len(s) - 1)

\* What it is.
LEMMA FrontFacts ==
  ASSUME NEW s, Distinct(s), Len(s) > 0
  PROVE  /\ Distinct(Front(s)) /\ Len(Front(s)) = Len(s) - 1 /\ Len(s) \in Nat
         /\ Len(s) \in 1 .. Len(s)
         /\ NodesOf(Front(s)) = NodesOf(s) \ {s[Len(s)]}
         /\ \A i \in 1 .. Len(s) - 1 : Front(s)[i] = s[i]
         /\ \A i \in Int : i < Len(s) => At(Front(s), i) = At(s, i)
<1> DEFINE t == Front(s)
           n == Len(s)
<1>1. /\ s \in Seq(Elem) /\ n \in Nat /\ n > 0
      /\ \A i \in 1 .. n : s[i] \in Elem
      /\ \A i, j \in 1 .. n : s[i] = s[j] => i = j
  BY LenProperties, ElementOfSeq DEF Distinct
<1>2. /\ t \in Seq(Elem) /\ Len(t) = n - 1 /\ \A i \in 1 .. n - 1 : t[i] = s[i]
  <2>1. \A i \in 1 .. n - 1 : s[i] \in Elem
    BY <1>1
  <2>2. /\ t \in Seq(Elem)
        /\ Len(t) = IF 1 <= n - 1 THEN (n - 1) - 1 + 1 ELSE 0
        /\ \A i \in 1 .. (n - 1) - 1 + 1 : t[i] = s[1 + i - 1]
    BY <1>1, <2>1, SubSeqProperties DEF Front
  <2>3. (n - 1) - 1 + 1 = n - 1 /\ \A i \in 1 .. n - 1 : 1 + i - 1 = i
    BY <1>1
  <2>4. Len(t) = n - 1
    <3>1. CASE n = 1
      BY <1>1, <2>2, <3>1
    <3>2. CASE n > 1
      BY <1>1, <2>2, <3>2
    <3>3. n = 1 \/ n > 1
      <4>1. n \in Nat /\ n > 0
        BY <1>1
      <4> HIDE DEF n
      <4> QED
        BY <4>1
    <3> QED
      BY <3>1, <3>2, <3>3
  <2>5. \A i \in 1 .. n - 1 : t[i] = s[i]
    BY <2>2, <2>3
  <2> QED
    BY <2>2, <2>4, <2>5
<1> HIDE DEF t
<1>3. \A i \in 1 .. n - 1 : i \in 1 .. n /\ i # n
  BY <1>1
<1>4. Distinct(t)
  BY <1>1, <1>2, <1>3 DEF Distinct
<1>5. n \in 1 .. n
  BY <1>1
<1>6. NodesOf(t) = NodesOf(s) \ {s[n]}
  <2>1. NodesOf(t) \subseteq NodesOf(s) \ {s[n]}
    BY <1>1, <1>2, <1>3, <1>5 DEF NodesOf
  <2>2. ASSUME NEW i \in 1 .. n, s[i] # s[n]
        PROVE  s[i] \in NodesOf(t)
    <3>1. i # n
      BY <2>2
    <3>2. i \in 1 .. n - 1
      BY <1>1, <3>1
    <3> QED
      BY <1>2, <3>2 DEF NodesOf
  <2> QED
    BY <2>1, <2>2 DEF NodesOf
<1>7. ASSUME NEW i \in Int, i < n
      PROVE  At(t, i) = At(s, i)
  <2>1. i \in 1 .. n - 1 <=> i \in 1 .. n
    BY <1>1, <1>7
  <2> QED
    BY <1>2, <2>1 DEF At
<1> QED
  BY <1>1, <1>2, <1>4, <1>5, <1>6, <1>7 DEF t

\* Unlinking the last node, forward.
LEMMA FrontForward ==
  ASSUME NEW hd, NEW nx, NEW s, Forward(hd, nx, s), Len(s) > 0,
         NEW ny, DOMAIN ny = DOMAIN nx \ {At(s, Len(s))},
         \A x \in DOMAIN ny : ny[x] = IF x = At(s, Len(s) - 1) THEN None ELSE nx[x]
  PROVE  Forward(IF At(s, Len(s) - 1) = None THEN None ELSE hd, ny, Front(s))
<1> DEFINE t == Front(s)
           n == Len(s)
<1>1. /\ Distinct(s) /\ hd = At(s, 1) /\ DOMAIN nx = NodesOf(s)
      /\ \A i \in 1 .. n : nx[s[i]] = At(s, i + 1)
  BY DEF Forward
<1>2. /\ Distinct(t) /\ Len(t) = n - 1 /\ n \in Nat /\ n \in 1 .. n
      /\ NodesOf(t) = NodesOf(s) \ {s[n]}
      /\ \A i \in 1 .. n - 1 : t[i] = s[i]
      /\ \A i \in Int : i < n => At(t, i) = At(s, i)
  BY <1>1, FrontFacts
<1> HIDE DEF t
<1>3. At(s, n) = s[n]
  BY <1>2 DEF At
<1>4. (IF At(s, n - 1) = None THEN None ELSE hd) = At(t, 1)
  <2>1. CASE n = 1
    BY <1>2, <2>1 DEF At
  <2>2. CASE n # 1
    <3>1. n - 1 \in 1 .. n /\ 1 < n
      BY <1>2, <2>2
    <3> QED
      BY <1>1, <1>2, <3>1, AtFacts
  <2> QED
    BY <2>1, <2>2
<1>5. ASSUME NEW i \in 1 .. Len(t)
      PROVE  ny[t[i]] = At(t, i + 1)
  <2>1. i \in 1 .. n /\ i \in 1 .. n - 1
    BY <1>2
  <2>2. t[i] \in DOMAIN ny /\ t[i] = s[i]
    BY <1>1, <1>2, <1>3, <2>1 DEF NodesOf
  <2>3. CASE i = n - 1
    <3>1. t[i] = At(s, n - 1)
      BY <2>1, <2>2, <2>3 DEF At
    <3>2. i + 1 \notin 1 .. n - 1
      BY <1>2, <2>3
    <3> QED
      BY <1>2, <2>2, <3>1, <3>2 DEF At
  <2>4. CASE i # n - 1
    <3>1. i + 1 < n
      BY <1>2, <2>1, <2>4
    <3>2. n - 1 \in 1 .. n
      BY <1>2, <2>1
    <3>3. t[i] # At(s, n - 1)
      BY <1>1, <2>1, <2>2, <2>4, <3>2 DEF At, Distinct
    <3>4. ny[t[i]] = At(s, i + 1)
      BY <1>1, <2>1, <2>2, <3>3
    <3> QED
      BY <1>2, <2>1, <3>1, <3>4
  <2> QED
    BY <2>3, <2>4
<1>6. Forward(IF At(s, n - 1) = None THEN None ELSE hd, ny, t)
  BY <1>1, <1>2, <1>3, <1>4, <1>5 DEF Forward
<1> QED
  BY <1>6 DEF t

\* Unlinking the last node, backward.
LEMMA FrontBackward ==
  ASSUME NEW tl, NEW pv, NEW s, Backward(tl, pv, s), Len(s) > 0,
         NEW py, DOMAIN py = DOMAIN pv \ {tl}, \A x \in DOMAIN py : py[x] = pv[x]
  PROVE  Backward(pv[tl], py, Front(s))
<1> DEFINE t == Front(s)
           n == Len(s)
<1>1. /\ Distinct(s) /\ tl = At(s, n) /\ DOMAIN pv = NodesOf(s)
      /\ \A i \in 1 .. n : pv[s[i]] = At(s, i - 1)
  BY DEF Backward
<1>2. /\ Distinct(t) /\ Len(t) = n - 1 /\ n \in Nat /\ n \in 1 .. n
      /\ NodesOf(t) = NodesOf(s) \ {s[n]}
      /\ \A i \in 1 .. n - 1 : t[i] = s[i]
      /\ \A i \in Int : i < n => At(t, i) = At(s, i)
  BY <1>1, FrontFacts
<1> HIDE DEF t
<1>3. tl = s[n] /\ pv[tl] = At(t, Len(t))
  <2>1. n - 1 \in Int /\ n - 1 < n
    BY <1>2
  <2> QED
    BY <1>1, <1>2, <2>1 DEF At
<1>4. ASSUME NEW i \in 1 .. Len(t)
      PROVE  py[t[i]] = At(t, i - 1)
  <2>1. i \in 1 .. n /\ i \in 1 .. n - 1
    BY <1>2
  <2>2. t[i] \in DOMAIN py /\ t[i] = s[i]
    BY <1>1, <1>2, <1>3, <2>1 DEF NodesOf
  <2>3. i - 1 \in Int /\ i - 1 < n
    BY <1>2, <2>1
  <2> QED
    BY <1>1, <1>2, <2>1, <2>2, <2>3
<1>5. Backward(pv[tl], py, t)
  BY <1>1, <1>2, <1>3, <1>4 DEF Backward
<1> QED
  BY <1>5 DEF t

\* What an iteration of n steps comes to: a recursive function, by its equation.
Steps(after, n) ==
  CHOOSE f : f = [k \in 0 .. n |-> IF k = 0 THEN None ELSE after[f[k - 1]]]

\* An iteration along a path comes to the nodes of the path.  The path itself solves
\* the equation, and by NatMin no step can be the first on which two solutions differ.
LEMMA StepsAlong ==
  ASSUME NEW s, Distinct(s), NEW after,
         after[None] = At(s, 1),
         \A i \in 1 .. Len(s) : after[s[i]] = At(s, i + 1)
  PROVE  [k \in 1 .. Len(s) |-> Steps(after, Len(s))[k]] = s
<1> DEFINE n == Len(s)
           g == [k \in 0 .. n |-> IF k = 0 THEN None ELSE s[k]]
           f == Steps(after, n)
<1>1. n \in Nat /\ s \in Seq(Elem) /\ s \in [1 .. n -> Elem]
  BY LenProperties DEF Distinct
<1>2. g = [k \in 0 .. n |-> IF k = 0 THEN None ELSE after[g[k - 1]]]
  <2>1. ASSUME NEW k \in 0 .. n, k # 0
        PROVE  s[k] = after[g[k - 1]]
    <3>1. k - 1 \in 0 .. n /\ k \in 1 .. n /\ (k - 1) + 1 = k
      BY <1>1, <2>1
    <3>2. CASE k = 1
      <4>1. g[k - 1] = None /\ At(s, 1) = s[k]
        BY <3>1, <3>2 DEF At
      <4> QED
        BY <4>1
    <3>3. CASE k # 1
      <4>1. k - 1 \in 1 .. n /\ k - 1 # 0
        BY <1>1, <3>1, <3>3
      <4>2. g[k - 1] = s[k - 1]
        BY <3>1, <4>1
      <4>3. after[s[k - 1]] = At(s, k)
        BY <3>1, <4>1
      <4> QED
        BY <3>1, <4>2, <4>3 DEF At
    <3> QED
      BY <3>2, <3>3
  <2> DEFINE h == [k \in 0 .. n |-> IF k = 0 THEN None ELSE after[g[k - 1]]]
  <2>2. \A k \in 0 .. n : g[k] = h[k]
    BY <2>1
  <2>3. DOMAIN g = 0 .. n /\ DOMAIN h = 0 .. n
    OBVIOUS
  <2> QED
    BY <2>1
<1> HIDE DEF g
<1>3. f = [k \in 0 .. n |-> IF k = 0 THEN None ELSE after[f[k - 1]]]
  BY <1>2, Zenon DEF Steps
<1> HIDE DEF f
<1> DEFINE D == {k \in 0 .. n : f[k] # g[k]}
<1>4. D = {}
  <2> SUFFICES ASSUME D # {} PROVE FALSE
    OBVIOUS
  <2>1. D \subseteq Nat
    BY <1>1
  <2> HIDE DEF D
  <2>2. PICK k \in D : \A y \in D : k <= y
    BY <2>1, NatMin
  <2>3. k \in 0 .. n /\ f[k] # g[k] /\ \A j \in 0 .. n : j < k => f[j] = g[j]
    BY <1>1, <2>1, <2>2 DEF D
  <2>4. f[0] = None /\ g[0] = None
    <3>1. 0 \in 0 .. n
      BY <1>1
    <3>2. f[0] = None
      BY <1>3, <3>1
    <3> QED
      BY <3>1, <3>2 DEF g
  <2>5. k # 0 /\ k - 1 \in 0 .. n /\ k - 1 < k
    BY <1>1, <2>3, <2>4
  <2>6. f[k - 1] = g[k - 1]
    BY <2>3, <2>5
  <2>7. f[k] = after[f[k - 1]]
    BY <1>3, <2>3, <2>5
  <2>8. g[k] = after[g[k - 1]]
    BY <1>2, <2>3, <2>5
  <2> QED
    BY <2>3, <2>6, <2>7, <2>8
<1>5. \A k \in 1 .. n : f[k] = s[k]
  <2>1. \A k \in 1 .. n : k \in 0 .. n /\ k # 0
    BY <1>1
  <2> QED
    BY <1>4, <2>1 DEF g
<1>6. [k \in 1 .. n |-> f[k]] = s
  BY <1>1, <1>5
<1> QED
  BY <1>6 DEF f

\* A path is as long as an iteration that comes to all of its nodes.
LEMMA PathRange ==
  ASSUME NEW s
  PROVE  {s[k] : k \in 1 .. Len(s)} = NodesOf(s)
  BY DEF NodesOf

\* Putting an element in, as the abstract sequence has it.
LEMMA InsIs ==
  ASSUME NEW s, Distinct(s), NEW p \in 0 .. Len(s), NEW e \in Elem, e \notin NodesOf(s)
  PROVE  Ins(s, p, e) = SubSeq(s, 1, p) \o <<e>> \o SubSeq(s, p + 1, Len(s))
<1> DEFINE t == Ins(s, p, e)
           a == SubSeq(s, 1, p)
           b == <<e>>
           c == SubSeq(s, p + 1, Len(s))
           n == Len(s)
<1>1. /\ t \in Seq(Elem) /\ Len(t) = n + 1 /\ n \in Nat /\ t[p + 1] = e
      /\ \A i \in 1 .. p : t[i] = s[i]
      /\ \A i \in p + 1 .. n : t[i + 1] = s[i]
  BY InsFacts, SMTT(30) DEF Distinct
<1>2. p \in Nat /\ p <= n /\ s \in Seq(Elem) /\ \A i \in 1 .. n : s[i] \in Elem
  BY <1>1, ElementOfSeq DEF Distinct
<1>3. a \in Seq(Elem) /\ Len(a) = p /\ \A i \in 1 .. p : a[i] = s[i]
  <2>1. \A i \in 1 .. p : s[i] \in Elem
    BY <1>1, <1>2
  <2>2. /\ a \in Seq(Elem) /\ Len(a) = IF 1 <= p THEN p - 1 + 1 ELSE 0
        /\ \A i \in 1 .. p - 1 + 1 : a[i] = s[1 + i - 1]
    BY <1>1, <1>2, <2>1, SubSeqProperties
  <2>3. p - 1 + 1 = p /\ \A i \in 1 .. p : 1 + i - 1 = i
    BY <1>2
  <2>4. Len(a) = p
    BY <1>2, <2>2
  <2>5. \A i \in 1 .. p : a[i] = s[i]
    BY <2>2, <2>3
  <2> QED
    BY <2>2, <2>4, <2>5
<1>4. b \in Seq(Elem) /\ Len(b) = 1 /\ b[1] = e
  OBVIOUS
<1>5. c \in Seq(Elem) /\ Len(c) = n - p /\ \A i \in 1 .. n - p : c[i] = s[p + i]
  <2>1. \A i \in p + 1 .. n : s[i] \in Elem
    BY <1>1, <1>2
  <2>2. /\ c \in Seq(Elem) /\ Len(c) = IF p + 1 <= n THEN n - (p + 1) + 1 ELSE 0
        /\ \A i \in 1 .. n - (p + 1) + 1 : c[i] = s[p + 1 + i - 1]
    BY <1>1, <1>2, <2>1, SubSeqProperties
  <2>3. n - (p + 1) + 1 = n - p /\ \A i \in 1 .. n - p : p + 1 + i - 1 = p + i
    BY <1>1, <1>2
  <2>4. Len(c) = n - p
    BY <1>1, <1>2, <2>2
  <2>5. \A i \in 1 .. n - p : c[i] = s[p + i]
    BY <2>2, <2>3
  <2> QED
    BY <2>2, <2>4, <2>5
<1> HIDE DEF t, a, b, c
<1>6. /\ a \o b \in Seq(Elem) /\ Len(a \o b) = p + 1
      /\ \A i \in 1 .. p + 1 : (a \o b)[i] = IF i <= p THEN a[i] ELSE b[i - p]
  <2>1. /\ a \o b \in Seq(Elem) /\ Len(a \o b) = Len(a) + Len(b)
        /\ \A i \in 1 .. Len(a) + Len(b) :
             (a \o b)[i] = IF i <= Len(a) THEN a[i] ELSE b[i - Len(a)]
    BY <1>3, <1>4, ConcatProperties, Zenon
  <2> QED
    BY <1>3, <1>4, <2>1
<1> DEFINE d == a \o b
<1> HIDE DEF d
<1>7. /\ d \in Seq(Elem) /\ Len(d) = p + 1
      /\ \A i \in 1 .. p + 1 : d[i] = IF i <= p THEN a[i] ELSE b[i - p]
  BY <1>6 DEF d
<1>8. /\ d \o c \in Seq(Elem) /\ Len(d \o c) = n + 1
      /\ \A i \in 1 .. n + 1 : (d \o c)[i] = IF i <= p + 1 THEN d[i] ELSE c[i - (p + 1)]
  <2>1. /\ d \o c \in Seq(Elem) /\ Len(d \o c) = Len(d) + Len(c)
        /\ \A i \in 1 .. Len(d) + Len(c) :
             (d \o c)[i] = IF i <= Len(d) THEN d[i] ELSE c[i - Len(d)]
    BY <1>5, <1>7, ConcatProperties, Zenon
  <2>2. Len(d) + Len(c) = n + 1
    BY <1>1, <1>2, <1>5, <1>7
  <2> QED
    BY <1>7, <2>1, <2>2
<1>9. ASSUME NEW i \in 1 .. n + 1
      PROVE  t[i] = (d \o c)[i]
  <2>1. CASE i <= p
    <3>1. i \in 1 .. p /\ i \in 1 .. p + 1 /\ i <= p + 1
      BY <1>2, <2>1
    <3> QED
      BY <1>1, <1>3, <1>7, <1>8, <2>1, <3>1
  <2>2. CASE i = p + 1
    <3>1. i \in 1 .. p + 1 /\ ~(i <= p) /\ i - p = 1 /\ i <= p + 1
      BY <1>2, <2>2
    <3> QED
      BY <1>1, <1>4, <1>7, <1>8, <2>2, <3>1
  <2>3. CASE i > p + 1
    <3>1. ~(i <= p + 1) /\ i - (p + 1) \in 1 .. n - p /\ p + (i - (p + 1)) = i - 1
      BY <1>1, <1>2, <2>3
    <3>2. i - 1 \in p + 1 .. n /\ (i - 1) + 1 = i
      BY <1>1, <1>2, <2>3
    <3>3. t[i] = s[i - 1]
      BY <1>1, <3>2
    <3>4. c[i - (p + 1)] = s[i - 1]
      BY <1>5, <3>1
    <3> QED
      BY <1>8, <3>1, <3>3, <3>4
  <2>4. i <= p \/ i = p + 1 \/ i > p + 1
    BY <1>2
  <2> QED
    BY <2>1, <2>2, <2>3, <2>4
<1>10. t = d \o c
  BY <1>1, <1>8, <1>9, SeqEqual
<1> QED
  BY <1>10 DEF t, a, b, c, d

\* The instances of the lists count nodes the same way.
LEMMA SameCardinality == \A S : DL!Cardinality(S) = Cardinality(S) /\ SL!Cardinality(S) = Cardinality(S)
  BY Zenon DEF DL!Cardinality, SL!Cardinality, Cardinality, DL!IsFiniteSet, SL!IsFiniteSet, IsFiniteSet

-----------------------------------------------------------------------------
(* DList: the path, forward and backward                                   *)

\* The list holds the elements s, linked in both directions.
DListIs(s) == Forward(dHead, dNext, s) /\ Backward(dTail, dPrev, s) /\ dLength = Len(s)

\* What an iteration comes to is that path.
LEMMA DListVisited == \A s : DListIs(s) =>
                        DL!Visited(dLength) = s /\ DL!Chain = DL!Nodes /\ dLength = Cardinality(DL!Nodes)
<1> SUFFICES ASSUME NEW s, DListIs(s)
             PROVE  DL!Visited(dLength) = s /\ DL!Chain = DL!Nodes /\ dLength = Cardinality(DL!Nodes)
  OBVIOUS
<1>1. /\ Distinct(s) /\ dHead = At(s, 1) /\ DOMAIN dNext = NodesOf(s) /\ dLength = Len(s)
      /\ \A i \in 1 .. Len(s) : dNext[s[i]] = At(s, i + 1)
  BY DEF DListIs, Forward
<1>2. DL!After[None] = At(s, 1)
  BY <1>1 DEF DL!After
<1>3. ASSUME NEW i \in 1 .. Len(s)
      PROVE  DL!After[s[i]] = At(s, i + 1)
  <2>1. s[i] \in DOMAIN dNext /\ s[i] # None
    <3>1. i \in Int /\ s[i] \in NodesOf(s)
      BY DEF NodesOf
    <3>2. s[i] \in Elem
      BY <1>1, <3>1, AtFacts
    <3> QED
      BY <1>1, <3>1, <3>2, NoneAssumption
  <2> QED
    BY <1>1, <2>1 DEF DL!After, DL!Nodes
<1>4. DL!Visited(Len(s)) = [k \in 1 .. Len(s) |-> Steps(DL!After, Len(s))[k]]
  BY DEF DL!Visited, Steps
<1>5. DL!Visited(Len(s)) = s
  BY <1>1, <1>2, <1>3, <1>4, StepsAlong
<1>6. Cardinality(DL!Nodes) = Len(s)
  BY <1>1, PathCount DEF DL!Nodes
<1>7. DL!Chain = DL!Nodes
  <2>1. DL!Chain = {s[k] : k \in 1 .. Len(s)}
    <3>1. DL!Visited(Cardinality(DL!Nodes)) = s
      BY <1>5, <1>6
    <3>2. DL!Chain = {DL!Visited(Cardinality(DL!Nodes))[k] : k \in 1 .. Cardinality(DL!Nodes)}
      BY SameCardinality, Zenon DEF DL!Chain
    <3> QED
      BY <1>5, <1>6, <3>1, <3>2, Zenon
  <2> QED
    BY <1>1, <2>1, PathRange DEF DL!Nodes
<1> QED
  BY <1>1, <1>5, <1>6, <1>7

\* A node is at some place, and its neighbours are at the places next to it.
LEMMA DListPlaces ==
  ASSUME NEW s, DListIs(s), NEW pos \in DL!Nodes \cup {None}
  PROVE  /\ \E p \in 0 .. Len(s) : pos = At(s, p) /\ DL!After[pos] = At(s, p + 1)
         /\ pos # None => \E p \in 0 .. Len(s) :
                           /\ dPrev[pos] = At(s, p) /\ pos = At(s, p + 1)
                           /\ DL!After[At(s, p)] = pos
<1>1. /\ Distinct(s) /\ dHead = At(s, 1) /\ DOMAIN dNext = NodesOf(s) /\ Len(s) \in Nat
      /\ \A i \in 1 .. Len(s) : dNext[s[i]] = At(s, i + 1) /\ dPrev[s[i]] = At(s, i - 1)
  BY LenProperties DEF DListIs, Forward, Backward, Distinct
<1>2. DL!After[None] = At(s, 1)
  BY <1>1 DEF DL!After
<1>3. ASSUME NEW i \in 1 .. Len(s)
      PROVE  DL!After[s[i]] = At(s, i + 1) /\ s[i] = At(s, i)
  <2>1. s[i] \in DOMAIN dNext /\ s[i] # None
    <3>1. i \in Int /\ s[i] \in NodesOf(s)
      BY DEF NodesOf
    <3>2. s[i] \in Elem
      BY <1>1, <3>1, AtFacts
    <3> QED
      BY <1>1, <3>1, <3>2, NoneAssumption
  <2> QED
    BY <1>1, <2>1 DEF DL!After, DL!Nodes, At
<1>4. CASE pos = None
  <2>1. 0 \in 0 .. Len(s) /\ 0 \notin 1 .. Len(s) /\ 0 + 1 = 1
    BY <1>1
  <2>2. pos = At(s, 0)
    BY <1>4, <2>1 DEF At
  <2> QED
    BY <1>2, <1>4, <2>1, <2>2
<1>5. CASE pos # None
  <2>1. PICK i \in 1 .. Len(s) : pos = s[i]
    BY <1>1, <1>5 DEF DL!Nodes, NodesOf
  <2>2. i \in 0 .. Len(s) /\ i - 1 \in 0 .. Len(s) /\ (i - 1) + 1 = i
    BY <1>1
  <2>3. DL!After[At(s, i - 1)] = pos
    <3>1. CASE i = 1
      <4>1. i - 1 \notin 1 .. Len(s)
        BY <3>1
      <4> QED
        BY <1>2, <1>3, <2>1, <3>1, <4>1 DEF At
    <3>2. CASE i # 1
      <4>1. i - 1 \in 1 .. Len(s)
        BY <1>1, <3>2
      <4> QED
        BY <1>3, <2>1, <2>2, <4>1
    <3> QED
      BY <3>1, <3>2
  <2> QED
    BY <1>1, <1>3, <2>1, <2>2, <2>3
<1> QED
  BY <1>4, <1>5

\* The ends of the list.
LEMMA DListEnds ==
  ASSUME NEW s, DListIs(s)
  PROVE  /\ Len(s) \in Nat /\ dLength = Len(s) /\ Distinct(s)
         /\ dHead = At(s, 1) /\ dTail = At(s, Len(s))
         /\ None = At(s, 0) /\ None = At(s, Len(s) + 1)
         /\ DL!Nodes = NodesOf(s)
<1>1. Len(s) \in Nat
  BY LenProperties DEF DListIs, Forward, Distinct
<1>2. 0 \notin 1 .. Len(s) /\ Len(s) + 1 \notin 1 .. Len(s)
  BY <1>1
<1> QED
  BY <1>1, <1>2 DEF DListIs, Forward, Backward, At, DL!Nodes

\* Every step puts an element in between two neighbours, takes one out at an end,
\* takes all out, or changes nothing.
LEMMA DListStep ==
  ASSUME NEW s, DListIs(s), [DL!Next]_dVars
  PROVE  \/ \E e \in dFresh, p \in 0 .. Len(s) : DL!Between(e, At(s, p), At(s, p + 1))
         \/ DL!PopFront \/ DL!PopBack \/ DL!Destroy
         \/ UNCHANGED dVars
<1>1. /\ Len(s) \in Nat /\ dHead = At(s, 1) /\ dTail = At(s, Len(s))
      /\ None = At(s, 0) /\ None = At(s, Len(s) + 1)
  BY DListEnds
<1>2. 0 \in 0 .. Len(s) /\ Len(s) \in 0 .. Len(s) /\ 0 + 1 = 1
  BY <1>1
<1>3. ASSUME NEW e \in dFresh, DL!PushFront(e) \/ DL!PushBack(e)
      PROVE  \E p \in 0 .. Len(s) : DL!Between(e, At(s, p), At(s, p + 1))
  BY <1>1, <1>2, <1>3 DEF DL!PushFront, DL!PushBack
<1>4. ASSUME NEW e \in dFresh, NEW pos \in DL!Nodes \cup {None},
             DL!InsertAfter(pos, e)
      PROVE  \E p \in 0 .. Len(s) : DL!Between(e, At(s, p), At(s, p + 1))
  BY <1>4, DListPlaces DEF DL!InsertAfter
<1>5. ASSUME NEW e \in dFresh, NEW pos \in DL!Nodes \cup {None},
             DL!InsertBefore(pos, e)
      PROVE  \E p \in 0 .. Len(s) : DL!Between(e, At(s, p), At(s, p + 1))
  <2>1. CASE pos = None
    <3>1. DL!InsertAfter(pos, e)
      BY <1>5, <2>1 DEF DL!InsertBefore
    <3> QED
      BY <1>4, <3>1
  <2>2. CASE pos # None
    <3>1. DL!Between(e, dPrev[pos], pos)
      BY <1>5, <2>2 DEF DL!InsertBefore
    <3> QED
      BY <2>2, <3>1, DListPlaces
  <2> QED
    BY <2>1, <2>2
<1>6. CASE DL!InsertFails \/ DL!PopFails \/ UNCHANGED dVars
  BY <1>6 DEF DL!InsertFails, DL!PopFails, DL!vars, dVars
<1>7. CASE DL!Next
  BY <1>3, <1>4, <1>5, <1>6, <1>7 DEF DL!Next
<1> QED
  BY <1>6, <1>7

\* The path after an insertion.
LEMMA DListBetween ==
  ASSUME NEW s, DListIs(s), NEW p \in 0 .. Len(s), NEW e \in Elem, e \notin DL!Nodes,
         DL!Between(e, At(s, p), At(s, p + 1))
  PROVE  DListIs(Ins(s, p, e))'
<1>1. /\ Forward(dHead, dNext, s) /\ Backward(dTail, dPrev, s) /\ dLength = Len(s)
      /\ Distinct(s) /\ DL!Nodes = NodesOf(s) /\ DL!Nodes = DOMAIN dNext /\ DL!Nodes = DOMAIN dPrev
  BY DListEnds DEF DListIs, DL!Nodes, Backward
<1>2. Forward(dHead', dNext', Ins(s, p, e))
  <2>1. /\ dHead' = IF At(s, p) = None THEN e ELSE dHead
        /\ dNext' = [n \in DOMAIN dNext \cup {e} |->
                      IF n = e THEN At(s, p + 1) ELSE IF n = At(s, p) THEN e ELSE dNext[n]]
    BY <1>1 DEF DL!Between
  <2> QED
    BY <1>1, <2>1, InsForward
<1>3. Backward(dTail', dPrev', Ins(s, p, e))
  <2>1. /\ dTail' = IF At(s, p + 1) = None THEN e ELSE dTail
        /\ dPrev' = [n \in DOMAIN dPrev \cup {e} |->
                      IF n = e THEN At(s, p) ELSE IF n = At(s, p + 1) THEN e ELSE dPrev[n]]
    BY <1>1 DEF DL!Between
  <2> QED
    BY <1>1, <2>1, InsBackward
<1>4. dLength' = Len(Ins(s, p, e))
  BY <1>1, InsFacts DEF DL!Between
<1> QED
  BY <1>2, <1>3, <1>4 DEF DListIs

\* The path after a pop at the front.
LEMMA DListPopFront ==
  ASSUME NEW s, DListIs(s), DL!PopFront
  PROVE  /\ Len(s) > 0 /\ DListIs(Tail(s))' /\ dOut' = s[1] /\ UNCHANGED dFresh
         /\ DL!Nodes' = DL!Nodes \ {s[1]} /\ s[1] \in DL!Nodes /\ DL!Release({s[1]})
<1>1. /\ Forward(dHead, dNext, s) /\ Backward(dTail, dPrev, s) /\ dLength = Len(s)
      /\ Distinct(s) /\ DL!Nodes = NodesOf(s) /\ DL!Nodes = DOMAIN dNext /\ DL!Nodes = DOMAIN dPrev
      /\ Len(s) \in Nat /\ dHead = At(s, 1)
  BY DListEnds DEF DListIs, DL!Nodes, Backward
<1>2. /\ dLength > 0 /\ dOut' = dHead /\ dHead' = dNext[dHead]
      /\ dTail' = IF dNext[dHead] = None THEN None ELSE dTail
      /\ dPrev' = DL!Without(dPrev, dHead, dNext[dHead])
      /\ dNext' = DL!Without(dNext, dHead, None)
      /\ dLength' = dLength - 1 /\ DL!Release({dHead}) /\ UNCHANGED dFresh
  BY DEF DL!PopFront
<1>3. 1 \in 1 .. Len(s) /\ dHead = s[1] /\ s[1] \in NodesOf(s)
  BY <1>1, <1>2 DEF At, NodesOf
<1>4. dNext[dHead] = At(s, 2)
  BY <1>1, <1>3 DEF Forward
<1>5. DOMAIN dNext' = DOMAIN dNext \ {dHead} /\ \A x \in DOMAIN dNext' : dNext'[x] = dNext[x]
  <2>1. \A x \in DL!Nodes : x # None
    <3>1. \A i \in 1 .. Len(s) : i \in Int /\ s[i] \in Elem
      BY <1>1, AtFacts
    <3> QED
      BY <1>1, <3>1, NoneAssumption DEF NodesOf
  <2> QED
    BY <1>1, <1>2, <2>1 DEF DL!Without
<1>6. Forward(dHead', dNext', Tail(s))
  BY <1>1, <1>2, <1>5, RestForward
<1>7. /\ DOMAIN dPrev' = DOMAIN dPrev \ {At(s, 1)}
      /\ \A x \in DOMAIN dPrev' : dPrev'[x] = IF x = At(s, 2) THEN None ELSE dPrev[x]
  BY <1>1, <1>2, <1>4 DEF DL!Without
<1>8. Backward(dTail', dPrev', Tail(s))
  <2>1. dTail' = IF At(s, 2) = None THEN None ELSE dTail
    BY <1>2, <1>4
  <2> QED
    <3>1. Backward(dTail, dPrev, s) /\ Len(s) > 0
      BY <1>1, <1>2
    <3>2. Backward(IF At(s, 2) = None THEN None ELSE dTail, dPrev', Tail(s))
      BY <1>7, <3>1, RestBackward
    <3> QED
      BY <2>1, <3>2
<1>9. dLength' = Len(Tail(s))
  BY <1>1, <1>2, RestFacts
<1> QED
  BY <1>1, <1>2, <1>3, <1>5, <1>6, <1>8, <1>9 DEF DListIs, DL!Nodes

\* The path after a pop at the back.
LEMMA DListPopBack ==
  ASSUME NEW s, DListIs(s), DL!PopBack
  PROVE  /\ Len(s) > 0 /\ DListIs(Front(s))' /\ dOut' = s[Len(s)] /\ UNCHANGED dFresh
         /\ DL!Nodes' = DL!Nodes \ {s[Len(s)]} /\ s[Len(s)] \in DL!Nodes
         /\ DL!Release({s[Len(s)]})
<1>1. /\ Forward(dHead, dNext, s) /\ Backward(dTail, dPrev, s) /\ dLength = Len(s)
      /\ Distinct(s) /\ DL!Nodes = NodesOf(s) /\ DL!Nodes = DOMAIN dNext /\ DL!Nodes = DOMAIN dPrev
      /\ Len(s) \in Nat /\ dTail = At(s, Len(s))
  BY DListEnds DEF DListIs, DL!Nodes, Backward
<1>2. /\ dLength > 0 /\ dOut' = dTail /\ dTail' = dPrev[dTail]
      /\ dHead' = IF dPrev[dTail] = None THEN None ELSE dHead
      /\ dNext' = DL!Without(dNext, dTail, dPrev[dTail])
      /\ dPrev' = DL!Without(dPrev, dTail, None)
      /\ dLength' = dLength - 1 /\ DL!Release({dTail}) /\ UNCHANGED dFresh
  BY DEF DL!PopBack
<1>3. Len(s) \in 1 .. Len(s) /\ dTail = s[Len(s)] /\ s[Len(s)] \in NodesOf(s)
  <2>1. Len(s) \in 1 .. Len(s)
    BY <1>1, <1>2
  <2> QED
    BY <1>1, <2>1 DEF At, NodesOf
<1>4. dPrev[dTail] = At(s, Len(s) - 1)
  BY <1>1, <1>3 DEF Backward
<1>5. DOMAIN dPrev' = DOMAIN dPrev \ {dTail} /\ \A x \in DOMAIN dPrev' : dPrev'[x] = dPrev[x]
  <2>1. \A x \in DL!Nodes : x # None
    <3>1. \A i \in 1 .. Len(s) : i \in Int /\ s[i] \in Elem
      BY <1>1, AtFacts
    <3> QED
      BY <1>1, <3>1, NoneAssumption DEF NodesOf
  <2> QED
    BY <1>1, <1>2, <2>1 DEF DL!Without
<1>6. Backward(dTail', dPrev', Front(s))
  BY <1>1, <1>2, <1>5, FrontBackward
<1>7. /\ DOMAIN dNext' = DOMAIN dNext \ {At(s, Len(s))}
      /\ \A x \in DOMAIN dNext' : dNext'[x] = IF x = At(s, Len(s) - 1) THEN None ELSE dNext[x]
  BY <1>1, <1>2, <1>4 DEF DL!Without
<1>8. Forward(dHead', dNext', Front(s))
  <2>1. dHead' = IF At(s, Len(s) - 1) = None THEN None ELSE dHead
    BY <1>2, <1>4
  <2> QED
    <3>1. Forward(dHead, dNext, s) /\ Len(s) > 0
      BY <1>1, <1>2
    <3>2. Forward(IF At(s, Len(s) - 1) = None THEN None ELSE dHead, dNext', Front(s))
      BY <1>7, <3>1, FrontForward
    <3> QED
      BY <2>1, <3>2
<1>9. dLength' = Len(Front(s))
  BY <1>1, <1>2, FrontFacts
<1> QED
  BY <1>1, <1>2, <1>3, <1>6, <1>7, <1>8, <1>9 DEF DListIs, DL!Nodes

\* The path without nodes.
LEMMA NoPath ==
  ASSUME NEW nx, DOMAIN nx = {}
  PROVE  Forward(None, nx, <<>>) /\ Backward(None, nx, <<>>) /\ Len(<<>>) = 0
         /\ NodesOf(<<>>) = {}
<1>1. <<>> \in Seq(Elem) /\ Len(<<>>) = 0 /\ 1 .. 0 = {}
  OBVIOUS
<1> QED
  BY <1>1 DEF Forward, Backward, Distinct, At, NodesOf

\* The path after the list is destroyed.
LEMMA DListDestroy ==
  ASSUME NEW s, DListIs(s), DL!Destroy
  PROVE  DListIs(<<>>)' /\ DL!Nodes' = {} /\ DL!Release(DL!Nodes) /\ UNCHANGED <<dOut, dFresh>>
<1>1. DL!Chain = DL!Nodes
  BY DListVisited
<1>2. DL!Nodes \ DL!Nodes = {}
  OBVIOUS
<1>3. /\ dHead' = None /\ dTail' = None /\ dLength' = 0
      /\ DOMAIN dNext' = {} /\ DOMAIN dPrev' = {}
      /\ DL!Release(DL!Nodes) /\ UNCHANGED <<dOut, dFresh>>
  BY <1>1, <1>2 DEF DL!Destroy
<1> QED
  BY <1>3, NoPath DEF DListIs, DL!Nodes

\* The inductive invariant: the pointers make a path, what clients have not inserted
\* yet is not on it, and each element that left it was destroyed once.
DListInv ==
  /\ \E s : DListIs(s)
  /\ dFresh \subseteq Elem /\ dFresh \cap DL!Nodes = {} /\ DL!Nodes \subseteq Elem
  /\ DL!ReleasedOnce

\* The list starts without nodes.
LEMMA DListInit == DL!Init => DListInv /\ DListIs(<<>>)
<1> SUFFICES ASSUME DL!Init PROVE DListInv /\ DListIs(<<>>)
  OBVIOUS
<1>1. /\ dHead = None /\ dTail = None /\ dLength = 0 /\ DOMAIN dNext = {} /\ DOMAIN dPrev = {}
      /\ dFresh = Elem /\ dDestroyed = [e \in Elem |-> 0]
  BY DEF DL!Init
<1>2. DListIs(<<>>)
  BY <1>1, NoPath DEF DListIs
<1> QED
  BY <1>1, <1>2 DEF DListInv, DL!Nodes, DL!ReleasedOnce

\* Freed nodes are destroyed once.
LEMMA DListReleased ==
  ASSUME DListInv, NEW N, N \subseteq DL!Nodes, DL!Nodes' = DL!Nodes \ N,
         DL!Release(N), UNCHANGED dFresh
  PROVE  DL!ReleasedOnce'
<1> SUFFICES ASSUME NEW e \in Elem
             PROVE  dDestroyed'[e] = IF e \in dFresh' \cup DL!Nodes' THEN 0 ELSE 1
  BY DEF DL!ReleasedOnce
<1>1. dDestroyed[e] = IF e \in dFresh \cup DL!Nodes THEN 0 ELSE 1
  BY DEF DListInv, DL!ReleasedOnce
<1>2. dDestroyed'[e] = dDestroyed[e] + (IF e \in N THEN 1 ELSE 0)
  BY DEF DL!Release
<1>3. CASE e \in N
  BY <1>1, <1>2, <1>3 DEF DListInv
<1>4. CASE e \notin N
  BY <1>1, <1>2, <1>4 DEF DListInv
<1> QED
  BY <1>3, <1>4

\* Every operation keeps the invariant.
LEMMA DListNext == DListInv /\ [DL!Next]_dVars => DListInv'
<1> SUFFICES ASSUME DListInv, [DL!Next]_dVars PROVE DListInv'
  OBVIOUS
<1>1. PICK s : DListIs(s)
  BY DEF DListInv
<1>2. dFresh \subseteq Elem /\ dFresh \cap DL!Nodes = {} /\ DL!Nodes \subseteq Elem /\ DL!ReleasedOnce
  BY DEF DListInv
<1>3. ASSUME NEW e \in dFresh, NEW p \in 0 .. Len(s), DL!Between(e, At(s, p), At(s, p + 1))
      PROVE  DListInv'
  <2>1. DListIs(Ins(s, p, e))'
    BY <1>1, <1>2, <1>3, DListBetween
  <2>2. DL!Nodes' = DL!Nodes \cup {e} /\ dFresh' = dFresh \ {e} /\ UNCHANGED dDestroyed
    BY <1>3 DEF DL!Between, DL!Nodes
  <2>3. DL!ReleasedOnce'
    BY <1>2, <2>2 DEF DL!ReleasedOnce
  <2> QED
    BY <1>2, <2>1, <2>2, <2>3 DEF DListInv
<1>4. CASE DL!PopFront
  <2>1. DL!ReleasedOnce'
    BY <1>1, <1>4, DListPopFront, DListReleased
  <2> QED
    BY <1>1, <1>2, <1>4, <2>1, DListPopFront DEF DListInv
<1>5. CASE DL!PopBack
  <2>1. DL!ReleasedOnce'
    BY <1>1, <1>5, DListPopBack, DListReleased
  <2> QED
    BY <1>1, <1>2, <1>5, <2>1, DListPopBack DEF DListInv
<1>6. CASE DL!Destroy
  <2>1. DL!Nodes' = DL!Nodes \ DL!Nodes
    BY <1>1, <1>6, DListDestroy
  <2>2. DL!ReleasedOnce'
    BY <1>1, <1>6, <2>1, DListDestroy, DListReleased
  <2> QED
    BY <1>1, <1>2, <1>6, <2>2, DListDestroy DEF DListInv
<1>7. CASE UNCHANGED dVars
  <2>1. DListIs(s)'
    BY <1>1, <1>7 DEF DListIs, Forward, Backward, dVars
  <2>2. DL!Nodes' = DL!Nodes /\ dFresh' = dFresh /\ DL!ReleasedOnce'
    BY <1>2, <1>7 DEF DL!Nodes, DL!ReleasedOnce, dVars
  <2> QED
    BY <1>2, <2>1, <2>2 DEF DListInv
<1> QED
  BY <1>1, <1>3, <1>4, <1>5, <1>6, <1>7, DListStep

\* A path that is linked in both directions is the list read in both directions.
LEMMA DListMirrored == DListInv => DL!Mirrored
<1> SUFFICES ASSUME DListInv PROVE DL!Mirrored
  OBVIOUS
<1>1. PICK s : DListIs(s)
  BY DEF DListInv
<1>2. /\ Forward(dHead, dNext, s) /\ Backward(dTail, dPrev, s) /\ dLength = Len(s)
      /\ DL!Nodes = NodesOf(s) /\ DL!Nodes = DOMAIN dPrev /\ dHead = At(s, 1) /\ dTail = At(s, Len(s))
      /\ Len(s) \in Nat /\ dLength = Cardinality(DL!Nodes) /\ DL!Visited(dLength) = s
      /\ None = At(s, 0) /\ None = At(s, Len(s) + 1)
  BY <1>1, DListEnds, DListVisited DEF DListIs, Backward
<1>3. ASSUME NEW k \in 1 .. dLength
      PROVE  /\ dPrev[s[k]] = IF k = 1 THEN None ELSE s[k - 1]
             /\ k = dLength => dNext[s[k]] = None
  <2>1. dPrev[s[k]] = At(s, k - 1) /\ dNext[s[k]] = At(s, k + 1)
    BY <1>2 DEF Forward, Backward
  <2>2. dPrev[s[k]] = IF k = 1 THEN None ELSE s[k - 1]
    <3>1. CASE k = 1
      BY <1>2, <2>1, <3>1
    <3>2. CASE k # 1
      <4>1. k - 1 \in 1 .. Len(s)
        BY <1>2, <3>2
      <4> QED
        BY <2>1, <3>2, <4>1 DEF At
    <3> QED
      BY <3>1, <3>2
  <2>3. k = dLength => dNext[s[k]] = None
    BY <1>2, <2>1
  <2> QED
    BY <2>2, <2>3
<1>4. dTail = IF dLength = 0 THEN None ELSE s[dLength]
  <2>1. dLength # 0 => dLength \in 1 .. Len(s)
    BY <1>2
  <2> QED
    BY <1>2, <2>1 DEF At
<1>5. dLength = 0 => dHead = None
  BY <1>2 DEF At
<1>6. DL!Nodes = {s[k] : k \in 1 .. dLength}
  BY <1>2, PathRange
<1>7. /\ dLength = Cardinality(DL!Nodes) /\ DOMAIN dPrev = DL!Nodes /\ DL!Visited(dLength) = s
  BY <1>2
<1> DEFINE Reads(chain) ==
             /\ DL!Nodes = {chain[k] : k \in 1 .. dLength}
             /\ \A k \in 1 .. dLength :
                  /\ dPrev[chain[k]] = IF k = 1 THEN None ELSE chain[k - 1]
                  /\ k = dLength => dNext[chain[k]] = None
             /\ dTail = IF dLength = 0 THEN None ELSE chain[dLength]
             /\ dLength = 0 => dHead = None
<1>8. Reads(s)
  BY <1>3, <1>4, <1>5, <1>6
<1>9. DL!Mirrored <=> /\ dLength = DL!Cardinality(DL!Nodes) /\ DOMAIN dPrev = DL!Nodes
                      /\ Reads(DL!Visited(dLength))
  BY Zenon DEF DL!Mirrored
<1> HIDE DEF Reads
<1> QED
  BY <1>7, <1>8, <1>9, SameCardinality, Zenon

\* What an iteration comes to, before and after a step.
LEMMA DListVisitedNext == \A s : DListIs(s)' => (DL!Visited(dLength))' = s
<1>1. (\A s : DListIs(s) => DL!Visited(dLength) = s)'
  <2>1. \A s : DListIs(s) => DL!Visited(dLength) = s
    BY DListVisited
  <2> QED
    BY <2>1, PTL
<1> QED
  BY <1>1

\* Every operation of the list is one of a sequence.
LEMMA DListRefines ==
  ASSUME DListInv, [DL!Next]_dVars
  PROVE  [DL!Sequence!Next \/ DL!Sequence!Insert]_<<DL!Visited(dLength), dOut>>
<1>1. PICK s : DListIs(s)
  BY DEF DListInv
<1>2. /\ DL!Visited(dLength) = s /\ Distinct(s) /\ s \in Seq(Elem) /\ DL!Nodes = NodesOf(s)
      /\ dFresh \subseteq Elem /\ dFresh \cap DL!Nodes = {} /\ Len(s) \in Nat
  BY <1>1, DListVisited, DListEnds DEF DListInv, Distinct
<1>3. ASSUME NEW e \in dFresh, NEW p \in 0 .. Len(s), DL!Between(e, At(s, p), At(s, p + 1))
      PROVE  DL!Sequence!Insert
  <2>1. (DL!Visited(dLength))' = Ins(s, p, e)
    <3>1. DListIs(Ins(s, p, e))'
      BY <1>1, <1>2, <1>3, DListBetween
    <3> QED
      BY <3>1, DListVisitedNext
  <2>2. Ins(s, p, e) = SubSeq(s, 1, p) \o <<e>> \o SubSeq(s, p + 1, Len(s)) /\ e \in Elem
    BY <1>2, InsIs
  <2>3. UNCHANGED dOut
    BY <1>3 DEF DL!Between
  <2> QED
    BY <1>2, <2>1, <2>2, <2>3 DEF DL!Sequence!Insert
<1>4. CASE DL!PopFront
  <2>1. Len(s) > 0 /\ dOut' = s[1] /\ (DL!Visited(dLength))' = Tail(s)
    BY <1>1, <1>4, DListPopFront, DListVisitedNext
  <2>2. s # <<>> /\ Head(s) = s[1]
    BY <1>2, <2>1
  <2> QED
    BY <1>2, <2>1, <2>2 DEF DL!Sequence!RemoveFirst, DL!Sequence!Next
<1>5. CASE DL!PopBack
  <2>1. Len(s) > 0 /\ dOut' = s[Len(s)] /\ (DL!Visited(dLength))' = Front(s)
    BY <1>1, <1>5, DListPopBack, DListVisitedNext
  <2>2. s # <<>>
    BY <1>2, <2>1
  <2> QED
    BY <1>2, <2>1, <2>2 DEF DL!Sequence!RemoveLast, DL!Sequence!Next, Front
<1>6. CASE DL!Destroy
  <2>1. UNCHANGED dOut /\ (DL!Visited(dLength))' = <<>>
    BY <1>1, <1>6, DListDestroy, DListVisitedNext
  <2>2. SubSeq(s, 1, 0) = <<>> /\ 0 \in 0 .. Len(s)
    BY <1>2
  <2> QED
    BY <1>2, <2>1, <2>2 DEF DL!Sequence!Truncate, DL!Sequence!Next
<1>7. CASE UNCHANGED dVars
  <2>1. DListIs(s)' /\ UNCHANGED dOut
    BY <1>1, <1>7 DEF DListIs, Forward, Backward, dVars
  <2> QED
    BY <1>2, <2>1, DListVisitedNext
<1> QED
  BY <1>1, <1>3, <1>4, <1>5, <1>6, <1>7, DListStep

\* An insertion puts the new element where an iteration that stands in front of it
\* goes next.
LEMMA DListInOrder ==
  ASSUME DListInv, NEW e \in dFresh, NEW n \in DL!Nodes \cup {None},
         DL!Between(e, n, DL!After[n])
  PROVE  DL!ComesAfter(n, e)
<1>1. e \notin DL!Nodes /\ e # None /\ e \in Elem
  BY NoneAssumption DEF DListInv
<1>2. None \notin DL!Nodes
  BY NoneAssumption DEF DListInv
<1>3. /\ DL!Nodes' = DL!Nodes \cup {e} /\ dHead' = IF n = None THEN e ELSE dHead
      /\ dNext' = [m \in DL!Nodes \cup {e} |->
                    IF m = e THEN DL!After[n] ELSE IF m = n THEN e ELSE dNext[m]]
  BY DEF DL!Between, DL!Nodes
<1>4. DL!After' = [m \in DL!Nodes' \cup {None} |-> IF m = None THEN dHead' ELSE dNext'[m]]
  BY DEF DL!After, DL!Nodes
<1>5. DL!After = [m \in DL!Nodes \cup {None} |-> IF m = None THEN dHead ELSE dNext[m]]
  BY DEF DL!After, DL!Nodes
<1>6. DL!After' = [m \in DL!Nodes \cup {None, e} |->
                     IF m = n THEN e ELSE IF m = e THEN DL!After[n] ELSE DL!After[m]]
  <2>1. DL!Nodes' \cup {None} = DL!Nodes \cup {None, e}
    BY <1>3
  <2>2. ASSUME NEW m \in DL!Nodes \cup {None, e}
        PROVE  (IF m = None THEN dHead' ELSE dNext'[m])
                 = IF m = n THEN e ELSE IF m = e THEN DL!After[n] ELSE DL!After[m]
    <3>1. CASE m = None
      BY <1>1, <1>2, <1>3, <1>5, <3>1
    <3>2. CASE m = e
      BY <1>1, <1>2, <1>3, <3>2
    <3>3. CASE m \in DL!Nodes
      BY <1>1, <1>2, <1>3, <1>5, <3>3
    <3> QED
      BY <3>1, <3>2, <3>3
  <2> QED
    BY <1>4, <2>1, <2>2
<1> QED
  BY <1>6 DEF DL!ComesAfter

LEMMA DListInsertsInOrder ==
  ASSUME DListInv, [DL!Next]_dVars,
         NEW e \in dFresh, NEW pos \in DL!Nodes \cup {None}
  PROVE  /\ DL!InsertAfter(pos, e) => DL!ComesAfter(pos, e)
         /\ DL!InsertBefore(pos, e) =>
              \E n \in DL!Nodes \cup {None} :
                (IF pos = None THEN n = None ELSE DL!After[n] = pos) /\ DL!ComesAfter(n, e)
<1>1. PICK s : DListIs(s)
  BY DEF DListInv
<1>2. DL!InsertAfter(pos, e) => DL!ComesAfter(pos, e)
  BY DListInOrder DEF DL!InsertAfter
<1>3. ASSUME DL!InsertBefore(pos, e), pos = None
      PROVE  DL!ComesAfter(None, e)
  <2>1. DL!InsertAfter(None, e)
    BY <1>3 DEF DL!InsertBefore
  <2> QED
    BY <2>1, DListInOrder DEF DL!InsertAfter
<1>4. ASSUME DL!InsertBefore(pos, e), pos # None
      PROVE  \E n \in DL!Nodes \cup {None} : DL!After[n] = pos /\ DL!ComesAfter(n, e)
  <2>1. DL!Between(e, dPrev[pos], pos)
    BY <1>4 DEF DL!InsertBefore
  <2>2. PICK p \in 0 .. Len(s) : dPrev[pos] = At(s, p) /\ DL!After[At(s, p)] = pos
    BY <1>1, <1>4, DListPlaces
  <2>3. At(s, p) \in DL!Nodes \cup {None}
    <3>1. Distinct(s) /\ DL!Nodes = NodesOf(s) /\ p \in Int
      BY <1>1, DListEnds
    <3> QED
      BY <3>1, AtFacts
  <2> QED
    BY <2>1, <2>2, <2>3, DListInOrder
<1> QED
  BY <1>2, <1>3, <1>4

-----------------------------------------------------------------------------
(* List: the path forward                                                  *)

\* The list holds the elements s.
ListIs(s) == Forward(lHead, lNext, s) /\ lLength = Len(s)

\* Its ends and its nodes.
LEMMA ListEnds ==
  ASSUME NEW s, ListIs(s)
  PROVE  /\ Len(s) \in Nat /\ lLength = Len(s) /\ Distinct(s)
         /\ lHead = At(s, 1) /\ None = At(s, 0) /\ None = At(s, Len(s) + 1)
         /\ SL!Nodes = NodesOf(s) /\ SL!Nodes \subseteq Elem /\ None \notin SL!Nodes
<1>1. Distinct(s) /\ Len(s) \in Nat /\ lHead = At(s, 1) /\ SL!Nodes = NodesOf(s) /\ lLength = Len(s)
  BY LenProperties DEF ListIs, Forward, Distinct, SL!Nodes
<1>2. 0 \notin 1 .. Len(s) /\ Len(s) + 1 \notin 1 .. Len(s)
  BY <1>1
<1>3. \A i \in 1 .. Len(s) : i \in Int /\ s[i] \in Elem
  BY <1>1, AtFacts
<1>4. SL!Nodes \subseteq Elem
  BY <1>1, <1>3 DEF NodesOf
<1> QED
  BY <1>1, <1>2, <1>4, NoneAssumption DEF At

\* Where a cursor goes from each place.
LEMMA ListAfter ==
  ASSUME NEW s, ListIs(s)
  PROVE  /\ SL!After[None] = At(s, 1)
         /\ \A i \in 1 .. Len(s) : /\ s[i] \in SL!Nodes /\ s[i] # None
                                    /\ SL!After[s[i]] = At(s, i + 1) /\ lNext[s[i]] = At(s, i + 1)
<1>1. SL!After[None] = At(s, 1)
  BY ListEnds DEF SL!After
<1>2. ASSUME NEW i \in 1 .. Len(s)
      PROVE  /\ s[i] \in SL!Nodes /\ s[i] # None
             /\ SL!After[s[i]] = At(s, i + 1) /\ lNext[s[i]] = At(s, i + 1)
  <2>1. s[i] \in SL!Nodes /\ s[i] # None
    <3>1. s[i] \in NodesOf(s)
      BY DEF NodesOf
    <3> QED
      BY <3>1, ListEnds
  <2>2. lNext[s[i]] = At(s, i + 1)
    BY DEF ListIs, Forward
  <2>3. SL!After[s[i]] = lNext[s[i]]
    BY <2>1 DEF SL!After
  <2> QED
    BY <2>1, <2>2, <2>3
<1> QED
  BY <1>1, <1>2

\* What an iteration comes to is that path.
LEMMA ListVisited == \A s : ListIs(s) =>
                       SL!Visited(lLength) = s /\ SL!Chain = SL!Nodes /\ lLength = Cardinality(SL!Nodes)
<1> SUFFICES ASSUME NEW s, ListIs(s)
             PROVE  SL!Visited(lLength) = s /\ SL!Chain = SL!Nodes /\ lLength = Cardinality(SL!Nodes)
  OBVIOUS
<1>1. Distinct(s) /\ SL!Nodes = NodesOf(s) /\ lLength = Len(s)
  BY ListEnds
<1>2. SL!Visited(Len(s)) = [k \in 1 .. Len(s) |-> Steps(SL!After, Len(s))[k]]
  BY DEF SL!Visited, Steps
<1>3. SL!Visited(Len(s)) = s
  <2>1. SL!After[None] = At(s, 1) /\ \A i \in 1 .. Len(s) : SL!After[s[i]] = At(s, i + 1)
    BY ListAfter
  <2> QED
    BY <1>1, <1>2, <2>1, StepsAlong
<1>4. Cardinality(SL!Nodes) = Len(s)
  BY <1>1, PathCount
<1>5. SL!Chain = SL!Nodes
  <2>1. SL!Chain = {s[k] : k \in 1 .. Len(s)}
    <3>1. SL!Visited(Cardinality(SL!Nodes)) = s
      BY <1>3, <1>4
    <3>2. SL!Chain = {SL!Visited(Cardinality(SL!Nodes))[k] : k \in 1 .. Cardinality(SL!Nodes)}
      BY SameCardinality, Zenon DEF SL!Chain
    <3> QED
      BY <1>3, <1>4, <3>1, <3>2, Zenon
  <2> QED
    BY <1>1, <2>1, PathRange
<1> QED
  BY <1>1, <1>3, <1>4, <1>5

\* What an iteration comes to after a step.
LEMMA ListVisitedNext == \A s : ListIs(s)' => (SL!Visited(lLength))' = s
<1>1. (\A s : ListIs(s) => SL!Visited(lLength) = s)'
  <2>1. \A s : ListIs(s) => SL!Visited(lLength) = s
    BY ListVisited
  <2> QED
    BY <2>1, PTL
<1> QED
  BY <1>1

\* A node is at some place.
LEMMA ListPlace ==
  ASSUME NEW s, ListIs(s), NEW pos \in SL!Nodes \cup {None}
  PROVE  \E p \in 0 .. Len(s) : pos = At(s, p) /\ SL!After[pos] = At(s, p + 1)
<1>1. CASE pos = None
  <2>1. 0 \in 0 .. Len(s) /\ 0 + 1 = 1
    BY ListEnds
  <2> QED
    BY <1>1, <2>1, ListEnds, ListAfter
<1>2. CASE pos # None
  <2>1. PICK i \in 1 .. Len(s) : pos = s[i]
    BY <1>2, ListEnds DEF NodesOf
  <2>2. i \in 0 .. Len(s)
    BY ListEnds
  <2> QED
    BY <2>1, <2>2, ListAfter DEF At
<1> QED
  BY <1>1, <1>2

\* Every step puts an element in behind some place, takes the first out, takes all
\* out, or changes nothing.
LEMMA ListStep ==
  ASSUME NEW s, ListIs(s), [SL!Next]_lVars
  PROVE  \/ \E e \in lFresh, pos \in SL!Nodes \cup {None} : SL!InsertAfter(pos, e)
         \/ SL!PopFront \/ SL!Destroy
         \/ UNCHANGED lVars
<1>1. ASSUME NEW e \in lFresh, NEW pos, SL!InsertBefore(pos, e)
      PROVE  \E n \in SL!Nodes \cup {None} : SL!InsertAfter(n, e)
  <2>1. SL!InFrontOf(pos) \subseteq SL!Nodes
    BY ListVisited DEF SL!InFrontOf
  <2> QED
    BY <1>1, <2>1 DEF SL!InsertBefore
<1>2. CASE SL!InsertBeforeFails(Stranger) \/ SL!InsertFails \/ SL!PopFails \/ UNCHANGED lVars
  BY <1>2 DEF SL!InsertBeforeFails, SL!InsertFails, SL!PopFails, SL!vars, lVars
<1>3. CASE SL!Next
  BY <1>1, <1>2, <1>3 DEF SL!Next, SL!PushFront
<1> QED
  BY <1>2, <1>3

\* The path after an insertion.
LEMMA ListInsert ==
  ASSUME NEW s, ListIs(s), NEW e \in Elem, e \notin SL!Nodes,
         NEW pos \in SL!Nodes \cup {None}, SL!InsertAfter(pos, e)
  PROVE  \E p \in 0 .. Len(s) : ListIs(Ins(s, p, e))'
<1>1. PICK p \in 0 .. Len(s) : pos = At(s, p) /\ SL!After[pos] = At(s, p + 1)
  BY ListPlace
<1>2. Forward(lHead, lNext, s) /\ lLength = Len(s) /\ Distinct(s) /\ SL!Nodes = NodesOf(s)
  BY ListEnds DEF ListIs
<1>3. Forward(lHead', lNext', Ins(s, p, e))
  <2>1. /\ lHead' = IF At(s, p) = None THEN e ELSE lHead
        /\ lNext' = [n \in DOMAIN lNext \cup {e} |->
                      IF n = e THEN At(s, p + 1) ELSE IF n = At(s, p) THEN e ELSE lNext[n]]
    BY <1>1 DEF SL!InsertAfter, SL!Nodes
  <2> QED
    BY <1>2, <2>1, InsForward
<1>4. lLength' = Len(Ins(s, p, e))
  BY <1>2, InsFacts DEF SL!InsertAfter
<1> QED
  BY <1>3, <1>4 DEF ListIs

\* The path after a pop.
LEMMA ListPopFront ==
  ASSUME NEW s, ListIs(s), SL!PopFront
  PROVE  /\ Len(s) > 0 /\ ListIs(Tail(s))' /\ lOut' = s[1] /\ UNCHANGED lFresh
         /\ SL!Nodes' = SL!Nodes \ {s[1]} /\ s[1] \in SL!Nodes /\ SL!Release({s[1]})
<1>1. /\ Forward(lHead, lNext, s) /\ lLength = Len(s) /\ Distinct(s)
      /\ Len(s) \in Nat /\ lHead = At(s, 1)
  BY ListEnds DEF ListIs
<1>2. /\ lLength > 0 /\ lOut' = lHead /\ lHead' = lNext[lHead]
      /\ lNext' = [n \in DOMAIN lNext \ {lHead} |-> lNext[n]]
      /\ lLength' = lLength - 1 /\ SL!Release({lHead}) /\ UNCHANGED lFresh
  BY DEF SL!PopFront, SL!Nodes
<1>3. lHead = s[1] /\ s[1] \in SL!Nodes
  <2>1. 1 \in 1 .. Len(s)
    BY <1>1, <1>2
  <2> QED
    BY <1>1, <2>1, ListAfter DEF At
<1>4. Forward(lHead', lNext', Tail(s))
  BY <1>1, <1>2, RestForward
<1>5. lLength' = Len(Tail(s))
  BY <1>1, <1>2, RestFacts
<1>6. SL!Nodes' = SL!Nodes \ {s[1]}
  BY <1>2, <1>3 DEF SL!Nodes
<1> QED
  BY <1>1, <1>2, <1>3, <1>4, <1>5, <1>6 DEF ListIs

\* The path after the list is destroyed.
LEMMA ListDestroy ==
  ASSUME NEW s, ListIs(s), SL!Destroy
  PROVE  ListIs(<<>>)' /\ SL!Nodes' = {} /\ SL!Release(SL!Nodes) /\ UNCHANGED <<lOut, lFresh>>
<1>1. SL!Chain = SL!Nodes
  BY ListVisited
<1>2. SL!Nodes \ SL!Nodes = {}
  OBVIOUS
<1>3. /\ lHead' = None /\ lLength' = 0 /\ DOMAIN lNext' = {}
      /\ SL!Release(SL!Nodes) /\ UNCHANGED <<lOut, lFresh>>
  BY <1>1, <1>2 DEF SL!Destroy
<1> QED
  BY <1>3, NoPath DEF ListIs, SL!Nodes

\* The inductive invariant.
ListInv ==
  /\ \E s : ListIs(s)
  /\ lFresh \subseteq Elem /\ lFresh \cap SL!Nodes = {} /\ SL!Nodes \subseteq Elem
  /\ SL!ReleasedOnce

\* The list starts without nodes.
LEMMA ListInit == SL!Init => ListInv /\ ListIs(<<>>)
<1> SUFFICES ASSUME SL!Init PROVE ListInv /\ ListIs(<<>>)
  OBVIOUS
<1>1. /\ lHead = None /\ lLength = 0 /\ DOMAIN lNext = {}
      /\ lFresh = Elem /\ lDestroyed = [e \in Elem |-> 0]
  BY DEF SL!Init
<1>2. ListIs(<<>>)
  BY <1>1, NoPath DEF ListIs
<1> QED
  BY <1>1, <1>2 DEF ListInv, SL!Nodes, SL!ReleasedOnce

\* Freed nodes are destroyed once.
LEMMA ListReleased ==
  ASSUME ListInv, NEW N, N \subseteq SL!Nodes, SL!Nodes' = SL!Nodes \ N,
         SL!Release(N), UNCHANGED lFresh
  PROVE  SL!ReleasedOnce'
<1> SUFFICES ASSUME NEW e \in Elem
             PROVE  lDestroyed'[e] = IF e \in lFresh' \cup SL!Nodes' THEN 0 ELSE 1
  BY DEF SL!ReleasedOnce
<1>1. lDestroyed[e] = IF e \in lFresh \cup SL!Nodes THEN 0 ELSE 1
  BY DEF ListInv, SL!ReleasedOnce
<1>2. lDestroyed'[e] = lDestroyed[e] + (IF e \in N THEN 1 ELSE 0)
  BY DEF SL!Release
<1>3. CASE e \in N
  BY <1>1, <1>2, <1>3 DEF ListInv
<1>4. CASE e \notin N
  BY <1>1, <1>2, <1>4 DEF ListInv
<1> QED
  BY <1>3, <1>4

\* Every operation keeps the invariant.
LEMMA ListNext == ListInv /\ [SL!Next]_lVars => ListInv'
<1> SUFFICES ASSUME ListInv, [SL!Next]_lVars PROVE ListInv'
  OBVIOUS
<1>1. PICK s : ListIs(s)
  BY DEF ListInv
<1>2. lFresh \subseteq Elem /\ lFresh \cap SL!Nodes = {} /\ SL!Nodes \subseteq Elem /\ SL!ReleasedOnce
  BY DEF ListInv
<1>3. ASSUME NEW e \in lFresh, NEW pos \in SL!Nodes \cup {None}, SL!InsertAfter(pos, e)
      PROVE  ListInv'
  <2>1. \E t : ListIs(t)'
    BY <1>1, <1>2, <1>3, ListInsert
  <2>2. SL!Nodes' = SL!Nodes \cup {e} /\ lFresh' = lFresh \ {e} /\ UNCHANGED lDestroyed
    BY <1>3 DEF SL!InsertAfter, SL!Nodes
  <2>3. SL!ReleasedOnce'
    BY <1>2, <2>2 DEF SL!ReleasedOnce
  <2> QED
    BY <1>2, <2>1, <2>2, <2>3 DEF ListInv
<1>4. CASE SL!PopFront
  <2>1. SL!ReleasedOnce'
    BY <1>1, <1>4, ListPopFront, ListReleased
  <2> QED
    BY <1>1, <1>2, <1>4, <2>1, ListPopFront DEF ListInv
<1>5. CASE SL!Destroy
  <2>1. SL!Nodes' = SL!Nodes \ SL!Nodes
    BY <1>1, <1>5, ListDestroy
  <2>2. SL!ReleasedOnce'
    BY <1>1, <1>5, <2>1, ListDestroy, ListReleased
  <2> QED
    BY <1>1, <1>2, <1>5, <2>2, ListDestroy DEF ListInv
<1>6. CASE UNCHANGED lVars
  <2>1. ListIs(s)'
    BY <1>1, <1>6 DEF ListIs, Forward, lVars
  <2>2. SL!Nodes' = SL!Nodes /\ lFresh' = lFresh /\ SL!ReleasedOnce'
    BY <1>2, <1>6 DEF SL!Nodes, SL!ReleasedOnce, lVars
  <2> QED
    BY <1>2, <2>1, <2>2 DEF ListInv
<1> QED
  BY <1>1, <1>3, <1>4, <1>5, <1>6, ListStep

\* A path is linked.
LEMMA ListLinked == ListInv => SL!Linked
<1> SUFFICES ASSUME ListInv PROVE SL!Linked
  OBVIOUS
<1>1. PICK s : ListIs(s)
  BY DEF ListInv
<1>2. /\ lLength = Cardinality(SL!Nodes) /\ SL!Nodes = SL!Chain /\ SL!Visited(lLength) = s
      /\ lLength = Len(s) /\ Len(s) \in Nat /\ None = At(s, Len(s) + 1)
  BY <1>1, ListVisited, ListEnds
<1>3. SL!After[IF lLength = 0 THEN None ELSE s[lLength]] = None
  <2>1. CASE lLength = 0
    BY <1>1, <1>2, <2>1, ListAfter
  <2>2. CASE lLength # 0
    <3>1. lLength \in 1 .. Len(s)
      BY <1>2, <2>2
    <3> QED
      BY <1>1, <1>2, <2>2, <3>1, ListAfter
  <2> QED
    BY <2>1, <2>2
<1>4. SL!After[IF lLength = 0 THEN None ELSE SL!Visited(lLength)[lLength]] = None
  BY <1>2, <1>3
<1> QED
  BY <1>2, <1>4, SameCardinality, Zenon DEF SL!Linked

\* Every operation of the list is one of a sequence.
LEMMA ListRefines ==
  ASSUME ListInv, [SL!Next]_lVars
  PROVE  [SL!Sequence!Next \/ SL!Sequence!Insert]_<<SL!Visited(lLength), lOut>>
<1>1. PICK s : ListIs(s)
  BY DEF ListInv
<1>2. /\ SL!Visited(lLength) = s /\ Distinct(s) /\ s \in Seq(Elem) /\ SL!Nodes = NodesOf(s)
      /\ lFresh \subseteq Elem /\ lFresh \cap SL!Nodes = {} /\ Len(s) \in Nat
  BY <1>1, ListVisited, ListEnds DEF ListInv, Distinct
<1>3. ASSUME NEW e \in lFresh, NEW pos \in SL!Nodes \cup {None}, SL!InsertAfter(pos, e)
      PROVE  SL!Sequence!Insert
  <2>1. PICK p \in 0 .. Len(s) : ListIs(Ins(s, p, e))'
    BY <1>1, <1>2, <1>3, ListInsert
  <2>2. (SL!Visited(lLength))' = Ins(s, p, e)
    BY <2>1, ListVisitedNext
  <2>3. Ins(s, p, e) = SubSeq(s, 1, p) \o <<e>> \o SubSeq(s, p + 1, Len(s)) /\ e \in Elem
    BY <1>2, InsIs
  <2>4. UNCHANGED lOut
    BY <1>3 DEF SL!InsertAfter
  <2> QED
    BY <1>2, <2>2, <2>3, <2>4 DEF SL!Sequence!Insert
<1>4. CASE SL!PopFront
  <2>1. Len(s) > 0 /\ lOut' = s[1] /\ (SL!Visited(lLength))' = Tail(s)
    BY <1>1, <1>4, ListPopFront, ListVisitedNext
  <2>2. s # <<>> /\ Head(s) = s[1]
    BY <1>2, <2>1
  <2> QED
    BY <1>2, <2>1, <2>2 DEF SL!Sequence!RemoveFirst, SL!Sequence!Next
<1>5. CASE SL!Destroy
  <2>1. UNCHANGED lOut /\ (SL!Visited(lLength))' = <<>>
    BY <1>1, <1>5, ListDestroy, ListVisitedNext
  <2>2. SubSeq(s, 1, 0) = <<>> /\ 0 \in 0 .. Len(s)
    BY <1>2
  <2> QED
    BY <1>2, <2>1, <2>2 DEF SL!Sequence!Truncate, SL!Sequence!Next
<1>6. CASE UNCHANGED lVars
  <2>1. ListIs(s)' /\ UNCHANGED lOut
    BY <1>1, <1>6 DEF ListIs, Forward, lVars
  <2> QED
    BY <1>2, <2>1, ListVisitedNext
<1> QED
  BY <1>1, <1>3, <1>4, <1>5, <1>6, ListStep

\* An element inserted before a node comes in front of it, and a node that is not of
\* the list is refused.
LEMMA ListInsertsBefore ==
  ASSUME ListInv, Stranger \notin Elem \cup {None},
         NEW e \in lFresh, NEW pos \in SL!Nodes \cup {Stranger}, SL!InsertBefore(pos, e)
  PROVE  pos \in SL!Nodes /\ SL!After'[e] = pos
<1>1. PICK s : ListIs(s)
  BY DEF ListInv
<1>2. /\ None \notin SL!Nodes /\ e \in Elem /\ e # None /\ e \notin SL!Nodes
      /\ SL!Nodes = NodesOf(s) /\ Distinct(s) /\ SL!Nodes \subseteq Elem
      /\ lHead = At(s, 1)
  BY <1>1, ListEnds, NoneAssumption DEF ListInv
<1>3. ASSUME NEW n, SL!InsertAfter(n, e)
      PROVE  SL!After'[e] = SL!After[n]
  <2>1. /\ SL!Nodes' = SL!Nodes \cup {e} /\ lNext'[e] = SL!After[n]
    BY <1>3 DEF SL!InsertAfter, SL!Nodes
  <2>2. SL!After' = [m \in SL!Nodes' \cup {None} |-> IF m = None THEN lHead' ELSE lNext'[m]]
    BY DEF SL!After, SL!Nodes
  <2> QED
    BY <1>2, <2>1, <2>2
<1>4. pos # None
  BY <1>2
<1>5. CASE pos = lHead /\ SL!InsertAfter(None, e)
  <2>1. SL!After[None] = lHead
    BY <1>1, <1>2, ListAfter
  <2>2. lHead \in SL!Nodes
    BY <1>2, <1>4, <1>5, AtFacts
  <2> QED
    BY <1>3, <1>5, <2>1, <2>2
<1>6. ASSUME NEW n \in SL!InFrontOf(pos), SL!InsertAfter(n, e)
      PROVE  pos \in SL!Nodes /\ SL!After'[e] = pos
  <2>1. n \in SL!Nodes /\ lNext[n] = pos
    BY <1>1, <1>6, ListVisited DEF SL!InFrontOf
  <2>2. PICK i \in 1 .. Len(s) : n = s[i]
    BY <1>2, <2>1 DEF NodesOf
  <2>3. SL!After[n] = pos /\ pos = At(s, i + 1)
    BY <1>1, <2>1, <2>2, ListAfter
  <2>4. pos \in SL!Nodes
    BY <1>2, <1>4, <2>3, AtFacts
  <2> QED
    BY <1>3, <1>6, <2>3, <2>4
<1> QED
  BY <1>4, <1>5, <1>6 DEF SL!InsertBefore

-----------------------------------------------------------------------------
(* All of them together                                                    *)

\* A step of the program is a step of each collection, or leaves it alone.
LEMMA EachSteps ==
  ASSUME [MCNext]_<<active, vars, dVars, lVars, rVars>>
  PROVE  [Next]_vars /\ [DL!Next]_dVars /\ [SL!Next]_lVars
<1>1. CASE MCNext
  BY <1>1 DEF MCNext
<1>2. CASE UNCHANGED <<active, vars, dVars, lVars, rVars>>
  BY <1>2
<1> QED
  BY <1>1, <1>2

\* The lists, of every length and after every sequence of insertions and removals, are
\* properly linked: next and prev of dlist.c mirror each other, and neither dlist.c nor
\* list.c loses a node or closes a circle.
THEOREM ListsStayLinked == MCSpec => []ListsLinked
<1>1. MCInit => DListInv /\ ListInv
  BY DListInit, ListInit DEF MCInit
<1>2. DListInv /\ ListInv /\ [MCNext]_<<active, vars, dVars, lVars, rVars>> => DListInv' /\ ListInv'
  BY EachSteps, DListNext, ListNext
<1>3. DListInv /\ ListInv => ListsLinked
  BY DListMirrored, ListLinked DEF ListsLinked
<1> QED
  BY <1>1, <1>2, <1>3, PTL DEF MCSpec

\* Each element is destroyed exactly once, in vector.c, dlist.c and list.c, if clients
\* do not call cu_Vector_pop_front on more than one element.
THEOREM AllDestroyedOnce ==
  ASSUME MaxFront <= 1
  PROVE  MCSpec => []EachDestroyedOnce
<1>1. MCInit => VectorInv /\ DListInv /\ ListInv
  BY VectorInit, DListInit, ListInit DEF MCInit
<1>2. VectorInv /\ DListInv /\ ListInv /\ [MCNext]_<<active, vars, dVars, lVars, rVars>>
        => VectorInv' /\ DListInv' /\ ListInv'
  BY EachSteps, VectorNext, DListNext, ListNext
<1>3. VectorInv /\ DListInv /\ ListInv => EachDestroyedOnce
  BY DEF VectorInv, DListInv, ListInv, EachDestroyedOnce
<1> QED
  BY <1>1, <1>2, <1>3, PTL DEF MCSpec

\* An element inserted before or after a node comes right there, and an iteration in
\* progress misses no other element.
THEOREM InsertionsInOrder == MCSpec => InsertsInOrder
<1>1. MCInit => DListInv /\ ListInv
  BY DListInit, ListInit DEF MCInit
<1>2. DListInv /\ ListInv /\ [MCNext]_<<active, vars, dVars, lVars, rVars>> => DListInv' /\ ListInv'
  BY EachSteps, DListNext, ListNext
<1>3. DListInv /\ ListInv /\ [MCNext]_<<active, vars, dVars, lVars, rVars>> =>
        /\ [\A e \in dFresh, pos \in DL!Nodes \cup {None} :
               /\ DL!InsertAfter(pos, e) => DL!ComesAfter(pos, e)
               /\ DL!InsertBefore(pos, e) =>
                    \E n \in DL!Nodes \cup {None} :
                      (IF pos = None THEN n = None ELSE DL!After[n] = pos) /\ DL!ComesAfter(n, e)]_dVars
        /\ [\A e \in lFresh, pos \in SL!Nodes \cup {Stranger} :
               SL!InsertBefore(pos, e) => pos \in SL!Nodes /\ SL!After'[e] = pos]_lVars
  <2> SUFFICES ASSUME DListInv, ListInv, [MCNext]_<<active, vars, dVars, lVars, rVars>>
               PROVE  /\ \A e \in dFresh, pos \in DL!Nodes \cup {None} :
                           /\ DL!InsertAfter(pos, e) => DL!ComesAfter(pos, e)
                           /\ DL!InsertBefore(pos, e) =>
                                \E n \in DL!Nodes \cup {None} :
                                  /\ IF pos = None THEN n = None ELSE DL!After[n] = pos
                                  /\ DL!ComesAfter(n, e)
                      /\ \A e \in lFresh, pos \in SL!Nodes \cup {Stranger} :
                           SL!InsertBefore(pos, e) => pos \in SL!Nodes /\ SL!After'[e] = pos
    OBVIOUS
  <2>1. Stranger \notin Elem \cup {None}
    BY InstancesOK DEF SL!ConstantsOK
  <2> QED
    BY <2>1, EachSteps, DListInsertsInOrder, ListInsertsBefore
<1> QED
  BY <1>1, <1>2, <1>3, PTL
  DEF MCSpec, InsertsInOrder, DL!InsertsInOrder, SL!InsertsBefore, DL!vars, SL!vars, dVars, lVars

\* The three collections are sequences, if clients do not call cu_Vector_pop_front on
\* more than one element.
THEOREM AllAreSequences ==
  ASSUME MaxFront <= 1
  PROVE  MCSpec => AreSequences
<1>1. MCInit => VectorInv /\ DListInv /\ ListInv
  BY VectorInit, DListInit, ListInit DEF MCInit
<1>2. VectorInv /\ DListInv /\ ListInv /\ [MCNext]_<<active, vars, dVars, lVars, rVars>>
        => VectorInv' /\ DListInv' /\ ListInv'
  BY EachSteps, VectorNext, DListNext, ListNext
<1>3. MCInit => Sequence!Init /\ DL!Sequence!Init /\ SL!Sequence!Init
  <2> SUFFICES ASSUME MCInit PROVE Sequence!Init /\ DL!Sequence!Init /\ SL!Sequence!Init
    OBVIOUS
  <2>1. Sequence!Init
    <3>1. 1 .. 0 = {}
      OBVIOUS
    <3> QED
      BY <3>1, NoneAssumption DEF MCInit, Init, Contents, Sequence!Init
  <2>2. DL!Visited(dLength) = <<>> /\ SL!Visited(lLength) = <<>>
    BY DListInit, ListInit, DListVisited, ListVisited DEF MCInit
  <2>3. dOut = None /\ lOut = None
    BY DEF MCInit, DL!Init, SL!Init
  <2> QED
    BY <2>1, <2>2, <2>3, NoneAssumption DEF DL!Sequence!Init, SL!Sequence!Init
<1>4. VectorInv /\ VectorInv' /\ DListInv /\ ListInv /\ [MCNext]_<<active, vars, dVars, lVars, rVars>> =>
        /\ [Sequence!Next]_<<Contents, out>>
        /\ [DL!Sequence!Next \/ DL!Sequence!Insert]_<<DL!Visited(dLength), dOut>>
        /\ [SL!Sequence!Next \/ SL!Sequence!Insert]_<<SL!Visited(lLength), lOut>>
  BY EachSteps, VectorRefines, DListRefines, ListRefines
<1> QED
  BY <1>1, <1>2, <1>3, <1>4, PTL
  DEF MCSpec, AreSequences, ImplementsSequence, Sequence!Spec, DL!ImplementsSequence,
      DL!Sequence!InsertingSpec, SL!ImplementsSequence, SL!Sequence!InsertingSpec
=============================================================================
