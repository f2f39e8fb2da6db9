-------------------------- MODULE RingBufferProofs --------------------------
(***************************************************************************)
(* Proofs about RingBuffer, for every set of elements and of capacities.   *)
(***************************************************************************)
EXTENDS MCSequences, SequenceTheorems, TLAPS

\* What the constants are like.
LEMMA RingConstants == None \notin Elem /\ Capacities \subseteq Nat
BY InstancesOK DEF RB!ConstantsOK

IInv == RB!TypeOK /\ RB!StoredOnce /\ RB!DestroyedOnce

\* An index at most one turn beyond the end wraps to the slot it names.
LEMMA Wrap ==
  ASSUME NEW c \in Nat \ {0}, NEW x \in Nat, x < c + c
  PROVE  (x < c => x % c = x) /\ (c <= x => x % c = x - c)
<1>1. CASE x < c
  BY <1>1
<1>2. CASE ~(x < c)
  <2>1. x = c + (x - c) /\ x - c \in 0 .. c - 1
    BY <1>2
  <2>2. (x - c) % c = x - c
    BY <2>1
  <2>3. x % c = (x - c) % c
    BY <2>1
  <2> QED
    BY <1>2, <2>2, <2>3
<1> QED
  BY <1>1, <1>2

\* Where (h + i) % c is.
LEMMA IndexIs ==
  ASSUME NEW c \in Nat \ {0}, NEW h \in 0 .. c - 1, NEW i \in 0 .. c
  PROVE  /\ (h + i < c => (h + i) % c = h + i)
         /\ (c <= h + i => (h + i) % c = h + i - c)
         /\ (h + i) % c \in 0 .. c - 1
<1> DEFINE x == h + i
<1>1. x = h + i /\ x \in Nat /\ x < c + c
  OBVIOUS
<1> HIDE DEF x
<1>2. (x < c => x % c = x) /\ (c <= x => x % c = x - c)
  BY <1>1, Wrap
<1> QED
  BY <1>1, <1>2

\* Different elements are in different slots.
LEMMA IndexInjective ==
  ASSUME NEW c \in Nat \ {0}, NEW h \in 0 .. c - 1,
         NEW i \in 0 .. c - 1, NEW j \in 0 .. c - 1, i # j
  PROVE  (h + i) % c # (h + j) % c
<1>1. /\ (h + i < c => (h + i) % c = h + i)
      /\ (c <= h + i => (h + i) % c = h + i - c)
  BY i \in 0 .. c, IndexIs
<1>2. /\ (h + j < c => (h + j) % c = h + j)
      /\ (c <= h + j => (h + j) % c = h + j - c)
  BY j \in 0 .. c, IndexIs
<1> QED
  BY <1>1, <1>2

\* Moving the head by one slot is skipping one element.
LEMMA IndexShift ==
  ASSUME NEW c \in Nat \ {0}, NEW h \in 0 .. c - 1, NEW i \in 0 .. c - 1
  PROVE  /\ (h + 1) % c \in 0 .. c - 1
         /\ (((h + 1) % c) + i) % c = (h + (i + 1)) % c
<1> DEFINE g == (h + 1) % c
<1>1. /\ (h + 1 < c => g = h + 1)
      /\ (c <= h + 1 => g = h + 1 - c)
      /\ g \in 0 .. c - 1
  BY 1 \in 0 .. c, IndexIs
<1> HIDE DEF g
<1>2. /\ (g + i < c => (g + i) % c = g + i)
      /\ (c <= g + i => (g + i) % c = g + i - c)
  BY <1>1, i \in 0 .. c, IndexIs
<1>3. /\ (h + (i + 1) < c => (h + (i + 1)) % c = h + (i + 1))
      /\ (c <= h + (i + 1) => (h + (i + 1)) % c = h + (i + 1) - c)
  BY i + 1 \in 0 .. c, IndexIs
<1>4. (g + i) % c = (h + (i + 1)) % c
  BY <1>1, <1>2, <1>3
<1> QED
  BY <1>1, <1>4 DEF g

-----------------------------------------------------------------------------
(* The invariant                                                           *)

\* Before there is a buffer nothing is stored and nothing destroyed.
LEMMA InitInv == RB!Init => IInv
<1> SUFFICES ASSUME RB!Init PROVE IInv
  OBVIOUS
<1>1. RB!Slots = {} /\ 0 .. rLength - 1 = {}
  BY DEF RB!Init, RB!Slots
<1>2. rData \in [RB!Slots -> Elem \cup {None}]
  BY <1>1 DEF RB!Init
<1>3. RB!TypeOK
  BY <1>2, 0 \in 0 .. 0 DEF RB!Init, RB!TypeOK
<1>4. RB!StoredOnce
  BY <1>1 DEF RB!StoredOnce
<1>5. RB!DestroyedOnce
  BY DEF RB!Init, RB!DestroyedOnce
<1> QED
  BY <1>3, <1>4, <1>5 DEF IInv

\* What holds of the slots of a buffer that has some.
LEMMA SlotFacts ==
  ASSUME RB!TypeOK, rCapacity # 0
  PROVE  /\ rCapacity \in Nat \ {0} /\ rHead \in 0 .. rCapacity - 1
         /\ rLength \in 0 .. rCapacity
         /\ \A i \in 0 .. rCapacity : RB!Slot(i) \in RB!Slots
         /\ \A i, j \in 0 .. rCapacity - 1 : i # j => RB!Slot(i) # RB!Slot(j)
<1>1. /\ rCapacity \in Nat \ {0} /\ rHead \in 0 .. rCapacity - 1
      /\ rLength \in 0 .. rCapacity
  BY DEF RB!TypeOK
<1>2. \A i \in 0 .. rCapacity : RB!Slot(i) \in RB!Slots
  BY <1>1, IndexIs DEF RB!Slot, RB!Slots
<1>3. \A i, j \in 0 .. rCapacity - 1 : i # j => RB!Slot(i) # RB!Slot(j)
  BY <1>1, IndexInjective DEF RB!Slot
<1> QED
  BY <1>1, <1>2, <1>3

\* A push stores the element behind the others and moves none of them.
LEMMA PushFacts ==
  ASSUME IInv, NEW e \in rFresh, RB!Push(e), rCapacity # 0
  PROVE  /\ rLength < rCapacity /\ rLength \in Nat /\ rLength' = rLength + 1
         /\ rCapacity' = rCapacity /\ rHead' = rHead
         /\ UNCHANGED <<rOpen, rOut, rDestroyed, rFault>>
         /\ rFresh' = rFresh \ {e} /\ e \in Elem
         /\ rData' \in [RB!Slots -> Elem \cup {None}]
         /\ rData'[RB!Slot(rLength)] = e
         /\ \A i \in 0 .. rLength - 1 : rData'[RB!Slot(i)] = rData[RB!Slot(i)]
<1>1. /\ rCapacity \in Nat \ {0} /\ rLength \in 0 .. rCapacity
      /\ \A i \in 0 .. rCapacity : RB!Slot(i) \in RB!Slots
      /\ \A i, j \in 0 .. rCapacity - 1 : i # j => RB!Slot(i) # RB!Slot(j)
  BY SlotFacts DEF IInv
<1>2. rLength < rCapacity /\ rLength \in Nat
  BY <1>1 DEF RB!Push, RB!IsFull
<1>3. rData \in [RB!Slots -> Elem \cup {None}] /\ e \in Elem
  BY DEF IInv, RB!TypeOK
<1>4. /\ rData' = [rData EXCEPT ![RB!Slot(rLength)] = e]
      /\ rLength' = rLength + 1
      /\ rFresh' = rFresh \ {e}
      /\ UNCHANGED <<rOpen, rCapacity, rHead, rOut, rDestroyed, rFault>>
  BY DEF RB!Push
<1>5. ASSUME NEW i \in 0 .. rLength - 1
      PROVE  rData'[RB!Slot(i)] = rData[RB!Slot(i)]
  <2>1. i \in 0 .. rCapacity - 1 /\ rLength \in 0 .. rCapacity - 1 /\ i # rLength
    BY <1>1, <1>2, rCapacity \in Nat
  <2>2. RB!Slot(i) # RB!Slot(rLength) /\ RB!Slot(i) \in RB!Slots
    BY <1>1, <1>2, <2>1
  <2> QED
    BY <1>3, <1>4, <2>2
<1>6. rData'[RB!Slot(rLength)] = e
  BY <1>1, <1>2, <1>3, <1>4
<1>7. rData' \in [RB!Slots -> Elem \cup {None}]
  BY <1>3, <1>4
<1> QED
  BY <1>2, <1>3, <1>4, <1>5, <1>6, <1>7

\* A push keeps the invariant.
LEMMA PushInv ==
  ASSUME IInv, NEW e \in rFresh, RB!Push(e)
  PROVE  IInv'
<1>1. CASE rCapacity = 0
  <2>1. UNCHANGED <<rOpen, rCapacity, rData, rHead, rLength, rOut, rFresh, rDestroyed>>
        /\ rFault' = TRUE
    BY <1>1 DEF RB!Push
  <2>2. RB!TypeOK' /\ RB!StoredOnce' /\ RB!DestroyedOnce'
    BY <2>1 DEF IInv, RB!TypeOK, RB!StoredOnce, RB!DestroyedOnce, RB!Stored, RB!Slot, RB!Slots
  <2> QED
    BY <2>2 DEF IInv
<1>2. CASE rCapacity # 0
  <2>1. /\ rLength < rCapacity /\ rLength \in Nat /\ rLength' = rLength + 1
        /\ rCapacity' = rCapacity /\ rHead' = rHead
        /\ UNCHANGED <<rOpen, rOut, rDestroyed, rFault>>
        /\ rFresh' = rFresh \ {e} /\ e \in Elem
        /\ rData' \in [RB!Slots -> Elem \cup {None}]
        /\ rData'[RB!Slot(rLength)] = e
        /\ \A i \in 0 .. rLength - 1 : rData'[RB!Slot(i)] = rData[RB!Slot(i)]
    BY <1>2, PushFacts
  <2>2. \A i : RB!Slot(i)' = (rHead' + i) % rCapacity'
    BY DEF RB!Slot
  <2>3. RB!TypeOK'
    BY <2>1 DEF IInv, RB!TypeOK, RB!Slots
  <2>4. \A i : (rHead' + i) % rCapacity' = RB!Slot(i)
    BY <2>1 DEF RB!Slot
  <2>5. /\ 0 .. rLength' - 1 = (0 .. rLength - 1) \cup {rLength}
    BY <2>1
  <2>6. \A i \in 0 .. rLength - 1 : rData[RB!Slot(i)] \in Elem \ rFresh
    BY DEF IInv, RB!StoredOnce
  <2>7. RB!StoredOnce'
    <3>1. \A i \in 0 .. rLength' - 1 : rData'[RB!Slot(i)] \in Elem \ rFresh'
      BY <2>1, <2>5, <2>6
    <3>2. \A i, j \in 0 .. rLength' - 1 : i # j => rData'[RB!Slot(i)] # rData'[RB!Slot(j)]
      BY <2>1, <2>5, <2>6 DEF IInv, RB!StoredOnce
    <3> QED
      BY <2>4, <3>1, <3>2 DEF RB!StoredOnce, RB!Slot
  <2>8. RB!Stored' = RB!Stored \cup {e}
    <3>1. RB!Stored' = {rData'[RB!Slot(i)] : i \in 0 .. rLength' - 1}
      BY <2>4 DEF RB!Stored, RB!Slot
    <3> QED
      BY <2>1, <2>5, <3>1 DEF RB!Stored
  <2>9. e \notin RB!Stored
    BY <2>6 DEF RB!Stored
  <2>10. RB!DestroyedOnce'
    BY <2>1, <2>8, <2>9 DEF IInv, RB!DestroyedOnce
  <2> QED
    BY <2>3, <2>7, <2>10 DEF IInv
<1> QED
  BY <1>1, <1>2

\* A pop takes the first element and moves none of the others.
LEMMA PopFacts ==
  ASSUME IInv, RB!Pop
  PROVE  /\ rCapacity # 0 /\ rLength \in 1 .. rCapacity /\ rLength' = rLength - 1
         /\ rHead' \in 0 .. rCapacity - 1
         /\ UNCHANGED <<rOpen, rCapacity, rData, rFresh, rFault>>
         /\ rOut' = rData[RB!Slot(0)]
         /\ rDestroyed' = [rDestroyed EXCEPT ![rData[RB!Slot(0)]] = @ + 1]
         /\ \A i \in 0 .. rCapacity - 1 : (rHead' + i) % rCapacity = RB!Slot(i + 1)
<1>1. rCapacity # 0 /\ rLength \in 1 .. rCapacity
  BY DEF IInv, RB!TypeOK, RB!Pop
<1>2. rCapacity \in Nat \ {0} /\ rHead \in 0 .. rCapacity - 1
  BY <1>1, SlotFacts DEF IInv
<1>3. RB!Slot(0) = rHead
  <2>1. (rHead + 0 < rCapacity => (rHead + 0) % rCapacity = rHead + 0)
    BY <1>2, 0 \in 0 .. rCapacity, IndexIs
  <2> QED
    BY <1>2, <2>1 DEF RB!Slot
<1>4. /\ rHead' \in 0 .. rCapacity - 1
      /\ \A i \in 0 .. rCapacity - 1 : (rHead' + i) % rCapacity = RB!Slot(i + 1)
  BY <1>2, IndexShift DEF RB!Slot, RB!Pop
<1> QED
  BY <1>1, <1>3, <1>4 DEF RB!Pop

\* A pop keeps the invariant.
LEMMA PopInv ==
  ASSUME IInv, RB!Pop
  PROVE  IInv'
<1>1. /\ rCapacity # 0 /\ rLength \in 1 .. rCapacity /\ rLength' = rLength - 1
      /\ rHead' \in 0 .. rCapacity - 1
      /\ UNCHANGED <<rOpen, rCapacity, rData, rFresh, rFault>>
      /\ rOut' = rData[RB!Slot(0)]
      /\ rDestroyed' = [rDestroyed EXCEPT ![rData[RB!Slot(0)]] = @ + 1]
      /\ \A i \in 0 .. rCapacity - 1 : (rHead' + i) % rCapacity = RB!Slot(i + 1)
  BY PopFacts
<1>2. rCapacity \in Nat \ {0} /\ rLength \in Nat
  BY <1>1 DEF IInv, RB!TypeOK
<1>3. /\ \A i \in 0 .. rLength - 1 : rData[RB!Slot(i)] \in Elem \ rFresh
      /\ \A i, j \in 0 .. rLength - 1 : i # j => rData[RB!Slot(i)] # rData[RB!Slot(j)]
  BY DEF IInv, RB!StoredOnce
<1>4. 0 \in 0 .. rLength - 1 /\ \A i \in 0 .. rLength' - 1 :
        i \in 0 .. rCapacity - 1 /\ i + 1 \in 1 .. rLength - 1
  BY <1>1, <1>2
<1>5. \A i \in 0 .. rLength' - 1 : rData'[RB!Slot(i)'] = rData[RB!Slot(i + 1)]
  BY <1>1, <1>4 DEF RB!Slot
<1>6. RB!TypeOK'
  <2>1. rData[RB!Slot(0)] \in Elem
    BY <1>3, <1>4
  <2>2. rDestroyed' \in [Elem -> Nat]
    BY <1>1, <2>1 DEF IInv, RB!TypeOK
  <2>3. rLength' \in 0 .. rCapacity' /\ rHead' \in Nat /\ rHead' < rCapacity'
    BY <1>1, <1>2
  <2>4. rData' \in [RB!Slots' -> Elem \cup {None}]
    BY <1>1 DEF IInv, RB!TypeOK, RB!Slots
  <2> QED
    BY <1>1, <2>1, <2>2, <2>3, <2>4 DEF IInv, RB!TypeOK
<1>7. RB!StoredOnce'
  <2>1. ASSUME NEW i \in 0 .. rLength' - 1
        PROVE  rData'[RB!Slot(i)'] \in Elem \ rFresh'
    BY <1>1, <1>3, <1>4, <1>5
  <2>2. ASSUME NEW i \in 0 .. rLength' - 1, NEW j \in 0 .. rLength' - 1, i # j
        PROVE  rData'[RB!Slot(i)'] # rData'[RB!Slot(j)']
    <3>1. i + 1 \in 0 .. rLength - 1 /\ j + 1 \in 0 .. rLength - 1 /\ i + 1 # j + 1
      BY <1>4, <2>2
    <3> QED
      BY <1>3, <1>5, <3>1
  <2> QED
    BY <2>1, <2>2 DEF RB!StoredOnce
<1>8. RB!Stored = RB!Stored' \cup {rData[RB!Slot(0)]} /\ rData[RB!Slot(0)] \notin RB!Stored'
  <2>1. RB!Stored' = {rData'[RB!Slot(i)'] : i \in 0 .. rLength' - 1}
    BY DEF RB!Stored
  <2>2. RB!Stored' = {rData[RB!Slot(i + 1)] : i \in 0 .. rLength' - 1}
    BY <1>5, <2>1
  <2>3. \A k \in 0 .. rLength - 1 : k = 0 \/ (k - 1 \in 0 .. rLength' - 1 /\ k = (k - 1) + 1)
    BY <1>1, <1>2
  <2>4. RB!Stored \subseteq RB!Stored' \cup {rData[RB!Slot(0)]}
    BY <2>2, <2>3 DEF RB!Stored
  <2>5. RB!Stored' \cup {rData[RB!Slot(0)]} \subseteq RB!Stored
    BY <1>4, <2>2 DEF RB!Stored
  <2>6. \A i \in 0 .. rLength' - 1 : rData[RB!Slot(i + 1)] # rData[RB!Slot(0)]
    <3>1. \A i \in 0 .. rLength' - 1 : i + 1 \in 0 .. rLength - 1 /\ i + 1 # 0
      BY <1>4
    <3> QED
      BY <1>3, <1>4, <3>1
  <2> QED
    BY <2>2, <2>4, <2>5, <2>6
<1>9. RB!DestroyedOnce'
  <2>1. rData[RB!Slot(0)] \in Elem \ rFresh
    BY <1>3, <1>4
  <2> QED
    BY <1>1, <1>8, <2>1 DEF IInv, RB!DestroyedOnce, RB!TypeOK
<1> QED
  BY <1>6, <1>7, <1>9 DEF IInv

\* Once its elements are destroyed the buffer holds nothing.
LEMMA EmptiedInv ==
  ASSUME IInv, RB!DestroyStored, UNCHANGED <<rOut, rFresh, rFault>>,
         rOpen' \in BOOLEAN, ~rOpen' => rCapacity' = 0,
         rLength' = 0, rHead' = 0, rCapacity' \in Nat,
         rData' \in [0 .. rCapacity' - 1 -> Elem \cup {None}]
  PROVE  IInv'
<1>1. RB!TypeOK'
  <2>1. rDestroyed' \in [Elem -> Nat]
    BY DEF IInv, RB!TypeOK, RB!DestroyStored
  <2>2. rData' \in [RB!Slots' -> Elem \cup {None}]
    BY DEF RB!Slots
  <2>3. rLength' \in 0 .. rCapacity' /\ rHead' \in Nat /\ rHead' = 0
    OBVIOUS
  <2> QED
    BY <2>1, <2>2, <2>3 DEF IInv, RB!TypeOK
<1>2. RB!StoredOnce'
  BY DEF RB!StoredOnce
<1>3. RB!Stored' = {} /\ RB!Stored \cap rFresh = {}
  BY DEF RB!Stored, IInv, RB!StoredOnce
<1>4. RB!DestroyedOnce'
  BY <1>3 DEF IInv, RB!TypeOK, RB!DestroyedOnce, RB!DestroyStored
<1> QED
  BY <1>1, <1>2, <1>4 DEF IInv

\* Creating a buffer where there is none.
LEMMA CreateInv ==
  ASSUME IInv, NEW c \in Capacities, RB!Create(c)
  PROVE  IInv'
<1>1. RB!Stored = {} /\ RB!Stored' = {} /\ rLength = 0
  BY DEF RB!Create, IInv, RB!TypeOK, RB!Stored
<1>2. c \in Nat
  BY RingConstants
<1>3. RB!TypeOK'
  <2>1. rLength' \in 0 .. rCapacity' /\ rHead' \in Nat /\ rHead' = 0 /\ rCapacity' \in Nat
    BY <1>2 DEF RB!Create
  <2>2. rData' \in [RB!Slots' -> Elem \cup {None}]
    BY DEF RB!Create, RB!Slots
  <2> QED
    BY <2>1, <2>2 DEF IInv, RB!TypeOK, RB!Create
<1>4. RB!StoredOnce'
  BY DEF RB!Create, RB!StoredOnce
<1>5. RB!DestroyedOnce'
  BY <1>1 DEF RB!Create, IInv, RB!DestroyedOnce
<1> QED
  BY <1>3, <1>4, <1>5 DEF IInv

\* Every step keeps the invariant.
LEMMA NextInv == IInv /\ [RB!Next]_rVars => IInv'
<1> SUFFICES ASSUME IInv, [RB!Next]_rVars PROVE IInv'
  OBVIOUS
<1>1. CASE \E c \in Capacities : RB!Create(c)
  BY <1>1, CreateInv
<1>2. CASE \E e \in rFresh : RB!Push(e)
  BY <1>2, PushInv
<1>3. CASE RB!Pop
  BY <1>3, PopInv
<1>4. CASE RB!Clear
  <2>1. rCapacity' \in Nat /\ rData' \in [0 .. rCapacity' - 1 -> Elem \cup {None}] /\ rOpen' = TRUE
    BY <1>4 DEF RB!Clear, IInv, RB!TypeOK, RB!Slots
  <2> QED
    BY <1>4, <2>1, EmptiedInv DEF RB!Clear
<1>5. CASE RB!Destroy
  <2>1. rCapacity' = 0 /\ rData' = <<>> /\ rOpen' = FALSE
    BY <1>5 DEF RB!Destroy
  <2>2. rData' \in [{} -> Elem \cup {None}] /\ 0 .. rCapacity' - 1 = {}
    BY <2>1
  <2>3. rCapacity' \in Nat /\ rData' \in [0 .. rCapacity' - 1 -> Elem \cup {None}]
    BY <2>1, <2>2
  <2>4. /\ RB!DestroyStored /\ UNCHANGED <<rOut, rFresh, rFault>>
        /\ rLength' = 0 /\ rHead' = 0
    BY <1>5 DEF RB!Destroy
  <2> QED
    BY <2>1, <2>3, <2>4, EmptiedInv
<1>6. CASE UNCHANGED rVars
  BY <1>6 DEF rVars, IInv, RB!TypeOK, RB!StoredOnce, RB!DestroyedOnce, RB!Stored, RB!Slot, RB!Slots
<1> QED
  BY <1>1, <1>2, <1>3, <1>4, <1>5, <1>6 DEF RB!Next, RB!PushFails, RB!PopFails, RB!vars, rVars

\* Where one collection is used at a time, each step is one of the ring buffer or
\* leaves it alone.
LEMMA RingSteps == MCSpec => RB!Init /\ [][RB!Next]_rVars
<1>1. MCInit => RB!Init
  BY DEF MCInit
<1>2. [MCNext]_<<active, vars, dVars, lVars, rVars>> => [RB!Next]_rVars
  BY DEF MCNext
<1> QED
  BY <1>1, <1>2, PTL DEF MCSpec

\* For every set of elements and capacities, wrap-around never overwrites an
\* element that waits, and each element is destroyed once, when it leaves
\* (cu_RingBuffer_push, cu_RingBuffer_pop, cu_RingBuffer_clear).
THEOREM RingBufferInvariant ==
  MCSpec => [](RB!TypeOK /\ QueueStoredOnce /\ QueueDestroyedOnce)
<1>1. RB!Init => IInv
  BY InitInv
<1>2. IInv /\ [RB!Next]_rVars => IInv'
  BY NextInv
<1>3. IInv => RB!TypeOK /\ QueueStoredOnce /\ QueueDestroyedOnce
  BY DEF IInv, QueueStoredOnce, QueueDestroyedOnce
<1> QED
  BY <1>1, <1>2, <1>3, RingSteps, PTL

-----------------------------------------------------------------------------
(* The buffer is a bounded first-in first-out queue                        *)

\* Contents is the sequence of the elements stored.
ContentsAre ==
  /\ RB!Contents \in Seq(Elem)
  /\ Len(RB!Contents) = rLength
  /\ \A i \in 1 .. rLength : RB!Contents[i] = rData[RB!Slot(i - 1)]

\* In order from the head, the stored elements are a sequence.
LEMMA ContentsFacts == IInv => ContentsAre
<1> SUFFICES ASSUME IInv PROVE ContentsAre
  OBVIOUS
<1>1. rLength \in Nat
  BY DEF IInv, RB!TypeOK
<1>2. \A i \in 1 .. rLength : rData[RB!Slot(i - 1)] \in Elem
  <2>1. \A i \in 1 .. rLength : i - 1 \in 0 .. rLength - 1
    BY <1>1
  <2> QED
    BY <2>1 DEF IInv, RB!StoredOnce
<1>3. RB!Contents \in [1 .. rLength -> Elem]
  BY <1>2 DEF RB!Contents
<1>4. RB!Contents \in Seq(Elem) /\ DOMAIN RB!Contents = 1 .. rLength
  BY <1>1, <1>3, SeqDef
<1>5. Len(RB!Contents) = rLength
  BY <1>1, <1>4, LenProperties
<1> QED
  BY <1>4, <1>5 DEF ContentsAre, RB!Contents

\* The same of the next state.
LEMMA ContentsFactsNext == IInv' => ContentsAre'
  BY ContentsFacts, PTL

\* A push appends, unless the index is undefined.
LEMMA PushRefines ==
  ASSUME IInv, IInv', NEW e \in rFresh, RB!Push(e)
  PROVE  RB!Fifo!Push \/ UNCHANGED <<RB!Contents, rCapacity, rOut>>
<1>1. CASE rCapacity = 0
  BY <1>1 DEF RB!Push, RB!Contents, RB!Slot
<1>2. CASE rCapacity # 0
  <2>1. /\ rLength < rCapacity /\ rLength \in Nat /\ rLength' = rLength + 1
        /\ rCapacity' = rCapacity /\ rHead' = rHead /\ UNCHANGED rOut
        /\ e \in Elem
        /\ rData'[RB!Slot(rLength)] = e
        /\ \A i \in 0 .. rLength - 1 : rData'[RB!Slot(i)] = rData[RB!Slot(i)]
    BY <1>2, PushFacts
  <2>2. ContentsAre /\ ContentsAre'
    BY ContentsFacts, ContentsFactsNext
  <2>3. \A i \in 1 .. rLength + 1 : RB!Contents'[i] = rData'[RB!Slot(i - 1)]
    BY <2>1, <2>2 DEF ContentsAre, RB!Slot
  <2>4. \A i \in 1 .. rLength + 1 :
          RB!Contents'[i] = IF i = rLength + 1 THEN e ELSE RB!Contents[i]
    <3>1. ASSUME NEW i \in 1 .. rLength
          PROVE  RB!Contents'[i] = RB!Contents[i]
      <4>1. i - 1 \in 0 .. rLength - 1 /\ i \in 1 .. rLength + 1
        BY <2>1
      <4> QED
        BY <2>1, <2>2, <2>3, <4>1 DEF ContentsAre
    <3>2. RB!Contents'[rLength + 1] = e
      <4>1. rLength + 1 \in 1 .. rLength + 1 /\ (rLength + 1) - 1 = rLength
        BY <2>1
      <4> QED
        BY <2>1, <2>3, <4>1
    <3>3. \A i \in 1 .. rLength + 1 : i = rLength + 1 \/ i \in 1 .. rLength
      BY <2>1
    <3>4. rLength + 1 \notin 1 .. rLength
      BY <2>1
    <3> QED
      BY <3>1, <3>2, <3>3, <3>4
  <2>5. RB!Contents' = Append(RB!Contents, e)
    <3> DEFINE s == RB!Contents
               t == RB!Contents'
    <3>1. s \in Seq(Elem) /\ t \in Seq(Elem) /\ Len(s) = rLength /\ Len(t) = rLength + 1
      BY <2>1, <2>2 DEF ContentsAre
    <3>2. \A i \in 1 .. rLength + 1 : t[i] = IF i = rLength + 1 THEN e ELSE s[i]
      BY <2>4
    <3> HIDE DEF s, t
    <3>3. /\ Append(s, e) \in Seq(Elem) /\ Len(Append(s, e)) = rLength + 1
          /\ \A i \in 1 .. rLength + 1 :
               Append(s, e)[i] = IF i = rLength + 1 THEN e ELSE s[i]
      BY <2>1, <3>1
    <3>4. t = Append(s, e)
      BY <3>1, <3>2, <3>3, SeqEqual
    <3> QED
      BY <3>4 DEF s, t
  <2> QED
    BY <2>1, <2>2, <2>5 DEF RB!Fifo!Push, ContentsAre
<1> QED
  BY <1>1, <1>2

\* A pop returns the first element and leaves the others.
LEMMA PopRefines ==
  ASSUME IInv, IInv', RB!Pop
  PROVE  RB!Fifo!Pop
<1>1. /\ rLength \in 1 .. rCapacity /\ rLength' = rLength - 1
      /\ UNCHANGED <<rCapacity, rData>>
      /\ rOut' = rData[RB!Slot(0)]
      /\ \A i \in 0 .. rCapacity - 1 : (rHead' + i) % rCapacity = RB!Slot(i + 1)
  BY PopFacts
<1>2. ContentsAre /\ ContentsAre' /\ rCapacity \in Nat
  BY ContentsFacts, ContentsFactsNext DEF IInv, RB!TypeOK
<1>3. \A i \in 1 .. rLength' : RB!Contents'[i] = RB!Contents[i + 1]
  <2> SUFFICES ASSUME NEW i \in 1 .. rLength' PROVE RB!Contents'[i] = RB!Contents[i + 1]
    OBVIOUS
  <2>1. /\ i - 1 \in 0 .. rCapacity - 1 /\ i + 1 \in 1 .. rLength
        /\ (i - 1) + 1 = (i + 1) - 1
    BY <1>1, <1>2
  <2>2. RB!Contents'[i] = rData[(rHead' + (i - 1)) % rCapacity]
    BY <1>1, <1>2 DEF ContentsAre, RB!Slot
  <2>3. (rHead' + (i - 1)) % rCapacity = RB!Slot((i + 1) - 1)
    BY <1>1, <2>1
  <2> QED
    BY <1>2, <2>1, <2>2, <2>3 DEF ContentsAre
<1>4. RB!Contents[1] = rData[RB!Slot(0)] /\ rLength \in Nat /\ rLength # 0
  BY <1>1, <1>2, 1 - 1 = 0 DEF ContentsAre
<1> DEFINE s == RB!Contents
           t == RB!Contents'
<1>5. /\ s \in Seq(Elem) /\ t \in Seq(Elem) /\ Len(s) = rLength /\ Len(t) = rLength - 1
      /\ \A i \in 1 .. rLength - 1 : t[i] = s[i + 1]
  BY <1>1, <1>2, <1>3 DEF ContentsAre
<1> HIDE DEF s, t
<1>6. s # <<>>
  BY <1>4, <1>5, EmptySeq
<1>7. /\ Tail(s) \in Seq(Elem) /\ Len(Tail(s)) = rLength - 1
      /\ \A i \in 1 .. rLength - 1 : Tail(s)[i] = s[i + 1]
  BY <1>5, <1>6, HeadTailProperties
<1>8. t = Tail(s)
  BY <1>5, <1>7, SeqEqual
<1>9. Head(s) = s[1]
  BY <1>5, <1>6
<1> QED
  BY <1>1, <1>4, <1>6, <1>8, <1>9 DEF s, t, RB!Fifo!Pop

\* An emptied buffer is an empty queue.
LEMMA EmptyContents == rLength = 0 => RB!Contents = <<>>
<1>1. 1 .. 0 = {}
  OBVIOUS
<1> QED
  BY <1>1 DEF RB!Contents

\* The same of the next state.
LEMMA EmptyContentsNext == rLength' = 0 => RB!Contents' = <<>>
<1>1. 1 .. 0 = {}
  OBVIOUS
<1> QED
  BY <1>1 DEF RB!Contents

\* Every step of the buffer is a step of the queue, or leaves the queue alone.
LEMMA StepRefines ==
  ASSUME IInv, IInv', [RB!Next]_rVars
  PROVE  [RB!Fifo!Next]_<<RB!Contents, rCapacity, rOut>>
<1>1. CASE \E c \in Capacities : RB!Create(c)
  <2>1. PICK c \in Capacities : RB!Create(c)
    BY <1>1
  <2>2. rLength = 0 /\ rLength' = 0
    BY <2>1 DEF RB!Create, IInv, RB!TypeOK
  <2>3. RB!Contents = <<>> /\ RB!Contents' = <<>>
    BY <2>2, EmptyContents, EmptyContentsNext
  <2> QED
    BY <2>1, <2>3, RingConstants DEF RB!Create, RB!Fifo!Create, RB!Fifo!Next
<1>2. CASE \E e \in rFresh : RB!Push(e)
  BY <1>2, PushRefines DEF RB!Fifo!Next
<1>3. CASE RB!Pop
  BY <1>3, PopRefines DEF RB!Fifo!Next
<1>4. CASE RB!Clear
  BY <1>4, EmptyContentsNext DEF RB!Clear, RB!Fifo!Clear, RB!Fifo!Next
<1>5. CASE RB!Destroy
  BY <1>5, EmptyContentsNext DEF RB!Destroy, RB!Fifo!Clear, RB!Fifo!Next
<1>6. CASE UNCHANGED rVars
  BY <1>6 DEF rVars, RB!Contents, RB!Slot
<1> QED
  BY <1>1, <1>2, <1>3, <1>4, <1>5, <1>6 DEF RB!Next, RB!PushFails, RB!PopFails, RB!vars, rVars

\* The ring buffer implements the bounded first-in first-out queue its header
\* promises, for every set of elements and capacities.
THEOREM RingBufferImplementsFifo == MCSpec => IsQueue
<1>1. RB!Init => RB!Fifo!Init
  <2> SUFFICES ASSUME RB!Init PROVE RB!Fifo!Init
    OBVIOUS
  <2>1. RB!Contents = <<>>
    BY EmptyContents DEF RB!Init
  <2> QED
    BY <2>1, RingConstants DEF RB!Init, RB!Fifo!Init
<1>2. IInv /\ IInv' /\ [RB!Next]_rVars => [RB!Fifo!Next]_<<RB!Contents, rCapacity, rOut>>
  BY StepRefines
<1>3. RB!Init => IInv
  BY InitInv
<1>4. IInv /\ [RB!Next]_rVars => IInv'
  BY NextInv
<1> QED
  BY <1>1, <1>2, <1>3, <1>4, RingSteps, PTL DEF IsQueue, RB!ImplementsFifo, RB!Fifo!Spec
=============================================================================
