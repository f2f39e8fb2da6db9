---------------------- MODULE StringsAndHandlesProofs ----------------------
(***************************************************************************)
(* Proofs about String and Rc, for every set of strings, literals,         *)
(* handles and containers, whether or not the allocator refuses.           *)
(***************************************************************************)
EXTENDS MCStringsAndHandles, SequenceTheorems, FiniteSetTheorems, TLAPS

-----------------------------------------------------------------------------
(* Sequences, by their elements                                            *)

\* Two sequences in a row.
LEMMA IsConcat ==
  ASSUME NEW S, NEW u \in Seq(S), NEW w \in Seq(S), NEW t \in Seq(S),
         Len(t) = Len(u) + Len(w),
         \A i \in 1 .. Len(u) : t[i] = u[i],
         \A i \in 1 .. Len(w) : t[Len(u) + i] = w[i]
  PROVE  t = u \o w
<1>1. /\ u \o w \in Seq(S) /\ Len(u \o w) = Len(u) + Len(w)
      /\ \A i \in 1 .. Len(u) + Len(w) :
           (u \o w)[i] = IF i <= Len(u) THEN u[i] ELSE w[i - Len(u)]
  BY ConcatProperties, Zenon
<1>2. Len(u) \in Nat /\ Len(w) \in Nat
  BY LenProperties
<1>3. ASSUME NEW i \in 1 .. Len(u) + Len(w)
      PROVE  t[i] = (u \o w)[i]
  <2>1. CASE i <= Len(u)
    <3>1. i \in 1 .. Len(u)
      BY <1>2, <2>1
    <3> QED
      BY <1>1, <2>1, <3>1
  <2>2. CASE ~(i <= Len(u))
    <3>1. i - Len(u) \in 1 .. Len(w) /\ Len(u) + (i - Len(u)) = i
      BY <1>2, <2>2
    <3> QED
      BY <1>1, <2>2, <3>1
  <2> QED
    BY <2>1, <2>2
<1> QED
  BY <1>1, <1>2, <1>3, SeqEqual

\* The beginning of a sequence.
LEMMA IsBeginning ==
  ASSUME NEW S, NEW u \in Seq(S), NEW t \in Seq(S),
         Len(u) <= Len(t), \A i \in 1 .. Len(u) : t[i] = u[i]
  PROVE  Len(u) \in 0 .. Len(t) /\ SubSeq(t, 1, Len(u)) = u
<1>1. Len(u) \in Nat /\ Len(t) \in Nat
  BY LenProperties
<1>2. \A i \in 1 .. Len(u) : t[i] \in S
  <2>1. \A i \in 1 .. Len(u) : i \in 1 .. Len(t)
    BY <1>1
  <2> QED
    BY <2>1, ElementOfSeq
<1>3. /\ SubSeq(t, 1, Len(u)) \in Seq(S)
      /\ Len(SubSeq(t, 1, Len(u))) = IF 1 <= Len(u) THEN Len(u) - 1 + 1 ELSE 0
      /\ \A i \in 1 .. Len(u) - 1 + 1 : SubSeq(t, 1, Len(u))[i] = t[1 + i - 1]
  BY <1>1, <1>2, SubSeqProperties
<1>4. Len(SubSeq(t, 1, Len(u))) = Len(u)
  BY <1>1, <1>3
<1>5. \A i \in 1 .. Len(u) : i \in 1 .. Len(u) - 1 + 1 /\ 1 + i - 1 = i
  BY <1>1
<1> QED
  BY <1>1, <1>3, <1>4, <1>5, SeqEqual

-----------------------------------------------------------------------------
(* Strings: the block and its terminator                                   *)

\* What a cell may hold.
Cell == Byte \cup {Nul, Garbage}

TypeOK ==
  /\ length \in [Str -> Nat] /\ capacity \in [Str -> Nat]
  /\ DOMAIN data = Str /\ data = [s \in Str |-> data[s]] /\ lost \subseteq Str

\* The inductive invariant: the block is as large as the capacity says, and a string
\* without one is empty and known.
StringInv ==
  /\ TypeOK /\ Terminated
  /\ \A s \in Str : /\ \A i \in DOMAIN data[s] : data[s][i] \in Cell
                    /\ IsNull(s) => s \notin lost

\* What is known of one string.
LEMMA OneString ==
  ASSUME StringInv, NEW s \in Str
  PROVE  /\ length[s] \in Nat /\ capacity[s] \in Nat /\ length[s] <= capacity[s]
         /\ length[s] > 0 => DOMAIN data[s] = 0 .. capacity[s]
         /\ DOMAIN data[s] = {} => capacity[s] = 0 /\ length[s] = 0 /\ s \notin lost
         /\ DOMAIN data[s] # {} => DOMAIN data[s] = 0 .. capacity[s]
         /\ \A i \in DOMAIN data[s] : data[s][i] \in Cell
<1>1. length[s] \in Nat /\ capacity[s] \in Nat
  BY DEF StringInv, TypeOK
<1> QED
  BY <1>1 DEF StringInv, Terminated, IsNull

\* The contents are a sequence of cells.
LEMMA ContentsFacts ==
  ASSUME StringInv, NEW s \in Str
  PROVE  /\ Contents(s) \in Seq(Cell) /\ Len(Contents(s)) = length[s]
         /\ \A i \in 1 .. length[s] : Contents(s)[i] = data[s][i - 1]
<1>1. length[s] \in Nat /\ \A i \in 1 .. length[s] : i - 1 \in DOMAIN data[s]
  BY OneString
<1>2. \A i \in 1 .. length[s] : data[s][i - 1] \in Cell
  BY <1>1, OneString
<1>3. Contents(s) \in [1 .. length[s] -> Cell]
  BY <1>2 DEF Contents
<1>4. Contents(s) \in Seq(Cell) /\ DOMAIN Contents(s) = 1 .. length[s]
  BY <1>1, <1>3, SeqDef
<1> QED
  BY <1>1, <1>4, LenProperties DEF Contents

\* A literal, and a slice of a string.
LEMMA SliceFacts ==
  ASSUME StringInv
  PROVE  /\ \A w \in Literals : w \in Seq(Cell)
         /\ \A t \in Str : \A w \in Subslices(t) : w \in Seq(Cell)
<1>1. ASSUME NEW w \in Literals
      PROVE  w \in Seq(Cell)
  <2>1. w \in Seq(Byte)
    BY LiteralsAssumption
  <2>2. Len(w) \in Nat /\ DOMAIN w = 1 .. Len(w) /\ w \in [1 .. Len(w) -> Byte]
    BY <2>1, LenProperties
  <2>3. w \in [1 .. Len(w) -> Cell]
    BY <2>2 DEF Cell
  <2> QED
    BY <2>2, <2>3, SeqDef
<1>2. ASSUME NEW t \in Str, NEW w \in Subslices(t)
      PROVE  w \in Seq(Cell)
  <2>1. PICK i \in 1 .. length[t] + 1, j \in 0 .. length[t] : w = SubSeq(Contents(t), i, j)
    BY DEF Subslices
  <2>2. Contents(t) \in Seq(Cell) /\ Len(Contents(t)) = length[t] /\ length[t] \in Nat
    BY ContentsFacts, OneString
  <2>3. \A k \in i .. j : k \in 1 .. length[t]
    BY <2>2
  <2>4. \A k \in i .. j : Contents(t)[k] \in Cell
    BY <2>2, <2>3, ElementOfSeq
  <2>5. i \in Int /\ j \in Int
    BY <2>2
  <2> QED
    BY <2>1, <2>4, <2>5, SubSeqProperties
<1> QED
  BY <1>1, <1>2

\* The capacity an append makes is enough, and no less than before.
LEMMA GrownFacts ==
  ASSUME StringInv, NEW s \in Str, NEW n \in Nat
  PROVE  /\ Grown(s, n) \in Nat /\ length[s] + n <= Grown(s, n) /\ capacity[s] <= Grown(s, n)
<1>1. length[s] \in Nat /\ capacity[s] \in Nat /\ length[s] <= capacity[s]
  BY OneString
<1> DEFINE new_cap == IF capacity[s] > 0 THEN 2 * capacity[s] ELSE n
<1>2. new_cap \in Nat /\ capacity[s] <= new_cap
  BY <1>1
<1>3. Grown(s, n) = IF length[s] + n <= capacity[s] THEN capacity[s]
                    ELSE IF new_cap < length[s] + n THEN length[s] + n ELSE new_cap
  BY DEF Grown
<1> HIDE DEF new_cap
<1> QED
  BY <1>1, <1>2, <1>3

\* The cells once bytes were stored behind the first n, which stay.
LEMMA StoredFacts ==
  ASSUME StringInv, NEW s \in Str, NEW w \in Seq(Cell), NEW cap \in Nat,
         NEW n \in 0 .. length[s], n + Len(w) <= cap, capacity[s] <= cap
  PROVE  /\ DOMAIN Stored(Block(s, cap), n, w) = 0 .. cap
         /\ \A i \in 0 .. cap : Stored(Block(s, cap), n, w)[i] \in Cell
         /\ \A i \in 1 .. n : Stored(Block(s, cap), n, w)[i - 1] = data[s][i - 1]
         /\ \A i \in 1 .. Len(w) : Stored(Block(s, cap), n, w)[(n + i) - 1] = w[i]
         /\ Stored(Block(s, cap), n, w)[n + Len(w)] = Nul
<1> DEFINE B == Block(s, cap)
           D == Stored(B, n, w)
<1>1. /\ length[s] \in Nat /\ n \in Nat /\ Len(w) \in Nat /\ capacity[s] \in Nat
      /\ length[s] <= capacity[s] /\ n <= length[s]
  BY OneString, LenProperties
<1>2. /\ DOMAIN B = 0 .. cap
      /\ \A i \in 0 .. cap : B[i] = IF i \in DOMAIN data[s] THEN data[s][i] ELSE Garbage
  BY DEF Block
<1>3. \A i \in 0 .. cap : B[i] \in Cell
  BY <1>2, OneString DEF Cell
<1> HIDE DEF B
<1>4. /\ DOMAIN D = 0 .. cap
      /\ \A i \in 0 .. cap :
           D[i] = IF i \in n .. n + Len(w) - 1 THEN w[i - n + 1]
                  ELSE IF i = n + Len(w) THEN Nul ELSE B[i]
  BY <1>2 DEF Stored
<1> HIDE DEF D
<1>5. ASSUME NEW i \in 0 .. cap
      PROVE  D[i] \in Cell
  <2>1. CASE i \in n .. n + Len(w) - 1
    <3>1. i - n + 1 \in 1 .. Len(w)
      BY <1>1, <2>1
    <3> QED
      BY <1>4, <2>1, <3>1, ElementOfSeq
  <2>2. CASE i \notin n .. n + Len(w) - 1
    BY <1>3, <1>4, <2>2 DEF Cell
  <2> QED
    BY <2>1, <2>2
<1>6. ASSUME NEW i \in 1 .. n
      PROVE  D[i - 1] = data[s][i - 1]
  <2>1. /\ i - 1 \in 0 .. cap /\ i - 1 \notin n .. n + Len(w) - 1 /\ i - 1 # n + Len(w)
        /\ i - 1 \in 0 .. capacity[s] /\ length[s] > 0
    BY <1>1
  <2>2. i - 1 \in DOMAIN data[s]
    BY <2>1, OneString
  <2> QED
    BY <1>2, <1>4, <2>1, <2>2
<1>7. ASSUME NEW i \in 1 .. Len(w)
      PROVE  D[(n + i) - 1] = w[i]
  <2>1. /\ (n + i) - 1 \in 0 .. cap /\ (n + i) - 1 \in n .. n + Len(w) - 1
        /\ ((n + i) - 1) - n + 1 = i
    BY <1>1
  <2> QED
    BY <1>4, <2>1
<1>8. D[n + Len(w)] = Nul
  <2>1. n + Len(w) \in 0 .. cap /\ n + Len(w) \notin n .. n + Len(w) - 1
    BY <1>1
  <2> QED
    BY <1>4, <2>1
<1> QED
  BY <1>4, <1>5, <1>6, <1>7, <1>8 DEF D, B

\* The contents of every string, in the next state too.
ContentsAre ==
  \A s \in Str :
    /\ Contents(s) \in Seq(Cell) /\ Len(Contents(s)) = length[s] /\ length[s] \in Nat
    /\ \A i \in 1 .. length[s] : Contents(s)[i] = data[s][i - 1]

LEMMA InvContents == StringInv => ContentsAre
  BY ContentsFacts, OneString DEF ContentsAre

LEMMA InvContentsNext == StringInv' => ContentsAre'
  BY InvContents, PTL

-----------------------------------------------------------------------------
(* Strings: what a step changes                                            *)

\* The text of the abstract strings.
text == [s \in Str |-> Contents(s)]

\* A step gives s the block d for c bytes, l of which it has, and no other string is lost.
Becomes(s, d, l, c) ==
  /\ data' = [data EXCEPT ![s] = d]
  /\ length' = [length EXCEPT ![s] = l] /\ l \in Nat
  /\ capacity' = [capacity EXCEPT ![s] = c] /\ c \in Nat /\ l <= c
  /\ lost' \subseteq lost \cup {s}
  /\ \A i \in DOMAIN d : d[i] \in Cell
  /\ \/ DOMAIN d = {} /\ c = 0 /\ s \notin lost'
     \/ DOMAIN d = 0 .. c /\ (l > 0 => d[l] = Nul)

\* Such a step keeps the invariant, and the other strings stay what they are.
LEMMA OneChanged ==
  ASSUME StringInv, NEW s \in Str, NEW d, NEW l, NEW c, Becomes(s, d, l, c)
  PROVE  /\ StringInv'
         /\ data'[s] = d /\ length'[s] = l
         /\ \A t \in Str \ {s} : Contents(t)' = Contents(t)
<1>0. /\ data' = [data EXCEPT ![s] = d]
      /\ length' = [length EXCEPT ![s] = l] /\ l \in Nat
      /\ capacity' = [capacity EXCEPT ![s] = c] /\ c \in Nat /\ l <= c
      /\ lost' \subseteq lost \cup {s}
      /\ \A i \in DOMAIN d : d[i] \in Cell
      /\ \/ DOMAIN d = {} /\ c = 0 /\ s \notin lost'
         \/ DOMAIN d = 0 .. c /\ (l > 0 => d[l] = Nul)
  BY DEF Becomes
<1>1. TypeOK
  BY DEF StringInv
<1>2. TypeOK'
  BY <1>0, <1>1 DEF TypeOK
<1>3. data'[s] = d /\ length'[s] = l /\ capacity'[s] = c
  BY <1>0, <1>1 DEF TypeOK
<1>4. ASSUME NEW t \in Str \ {s}
      PROVE  data'[t] = data[t] /\ length'[t] = length[t] /\ capacity'[t] = capacity[t]
             /\ (t \in lost' => t \in lost)
  BY <1>0, <1>1 DEF TypeOK
<1>5. 0 \in 0 .. c
  BY <1>0
<1>6. ASSUME NEW t \in Str
      PROVE  /\ DOMAIN data'[t] = IF DOMAIN data'[t] = {} THEN {} ELSE 0 .. capacity'[t]
             /\ DOMAIN data'[t] = {} => capacity'[t] = 0 /\ t \notin lost'
             /\ length'[t] <= capacity'[t]
             /\ length'[t] > 0 => data'[t][length'[t]] = Nul
             /\ \A i \in DOMAIN data'[t] : data'[t][i] \in Cell
  <2>1. CASE t = s
    <3>1. DOMAIN d = {} => c = 0 /\ l = 0 /\ s \notin lost'
      BY <1>0, <1>5
    <3>2. l > 0 => d[l] = Nul
      BY <1>0, <1>5
    <3> QED
      BY <1>0, <1>3, <2>1, <3>1, <3>2
  <2>2. CASE t # s
    BY <1>4, <2>2 DEF StringInv, Terminated, IsNull
  <2> QED
    BY <2>1, <2>2
<1>7. StringInv'
  BY <1>2, <1>6 DEF StringInv, Terminated, IsNull
<1>8. \A t \in Str \ {s} : Contents(t)' = Contents(t)
  BY <1>4 DEF Contents
<1> QED
  BY <1>3, <1>7, <1>8

\* An append: the string goes on with the bytes.
LEMMA AppendBytesFacts ==
  ASSUME StringInv, NEW s \in Str, NEW w \in Seq(Cell), AppendBytes(s, w),
         lost' \subseteq lost \cup {s}
  PROVE  /\ StringInv' /\ Contents(s)' = Contents(s) \o w
         /\ \A t \in Str \ {s} : Contents(t)' = Contents(t)
<1> DEFINE n == length[s]
           cap == Grown(s, Len(w))
           D == Stored(Block(s, cap), n, w)
<1>1. /\ n \in Nat /\ Len(w) \in Nat /\ n \in 0 .. length[s]
      /\ cap \in Nat /\ n + Len(w) <= cap /\ capacity[s] <= cap
  BY OneString, GrownFacts, LenProperties
<1>2. /\ data' = [data EXCEPT ![s] = D] /\ length' = [length EXCEPT ![s] = n + Len(w)]
      /\ capacity' = [capacity EXCEPT ![s] = cap]
  BY DEF AppendBytes
<1> HIDE DEF n, cap
<1>3. /\ DOMAIN D = 0 .. cap
      /\ \A i \in 0 .. cap : D[i] \in Cell
      /\ \A i \in 1 .. n : D[i - 1] = data[s][i - 1]
      /\ \A i \in 1 .. Len(w) : D[(n + i) - 1] = w[i]
      /\ D[n + Len(w)] = Nul
  BY <1>1, StoredFacts
<1> HIDE DEF D
<1>4. /\ n + Len(w) \in Nat /\ \A i \in DOMAIN D : D[i] \in Cell
      /\ DOMAIN D = 0 .. cap /\ (n + Len(w) > 0 => D[n + Len(w)] = Nul)
  BY <1>1, <1>3
<1>5. /\ StringInv' /\ data'[s] = D /\ length'[s] = n + Len(w)
      /\ \A t \in Str \ {s} : Contents(t)' = Contents(t)
  <2>1. Becomes(s, D, n + Len(w), cap)
    BY <1>1, <1>2, <1>4 DEF Becomes
  <2> QED
    BY <2>1, OneChanged
<1>6. ContentsAre /\ ContentsAre'
  BY <1>5, InvContents, InvContentsNext
<1> DEFINE u == Contents(s)
           t == Contents(s)'
<1>7. /\ u \in Seq(Cell) /\ Len(u) = n /\ t \in Seq(Cell) /\ Len(t) = n + Len(w)
      /\ \A i \in 1 .. n : u[i] = data[s][i - 1]
      /\ \A i \in 1 .. n + Len(w) : t[i] = D[i - 1]
  <2>1. u \in Seq(Cell) /\ Len(u) = n /\ \A i \in 1 .. n : u[i] = data[s][i - 1]
    BY <1>6 DEF ContentsAre, n
  <2>2. t \in Seq(Cell) /\ Len(t) = length'[s] /\ \A i \in 1 .. length'[s] : t[i] = data'[s][i - 1]
    BY <1>6 DEF ContentsAre
  <2> HIDE DEF u, t
  <2> QED
    BY <1>5, <2>1, <2>2
<1> HIDE DEF u, t
<1>8. \A i \in 1 .. n : t[i] = u[i]
  <2>1. \A i \in 1 .. n : i \in 1 .. n + Len(w)
    BY <1>1
  <2> QED
    BY <1>3, <1>7, <2>1
<1>9. \A i \in 1 .. Len(w) : t[n + i] = w[i]
  <2>1. \A i \in 1 .. Len(w) : n + i \in 1 .. n + Len(w)
    BY <1>1
  <2> QED
    BY <1>3, <1>7, <2>1
<1>10. t = u \o w
  BY <1>7, <1>8, <1>9, IsConcat
<1> QED
  BY <1>5, <1>10 DEF t, u

\* A new string holds the bytes of the slice.
LEMMA FromSliceFacts ==
  ASSUME StringInv, NEW s \in Str, NEW w \in Seq(Cell), FromSlice(s, w)
  PROVE  /\ StringInv' /\ Contents(s) = <<>> /\ Contents(s)' = w /\ s \notin lost
         /\ \A t \in Str \ {s} : Contents(t)' = Contents(t)
<1> DEFINE D == Stored(Block(s, Len(w)), 0, w)
<1>1. Len(w) \in Nat /\ length[s] = 0 /\ capacity[s] = 0 /\ s \notin lost
  BY OneString, LenProperties DEF FromSlice, IsNull
<1>2. /\ data' = [data EXCEPT ![s] = D] /\ length' = [length EXCEPT ![s] = Len(w)]
      /\ capacity' = [capacity EXCEPT ![s] = Len(w)] /\ lost' = lost
  BY DEF FromSlice
<1>3. /\ DOMAIN D = 0 .. Len(w)
      /\ \A i \in 0 .. Len(w) : D[i] \in Cell
      /\ \A i \in 1 .. Len(w) : D[(0 + i) - 1] = w[i]
      /\ D[0 + Len(w)] = Nul
  <2>1. 0 \in 0 .. length[s] /\ 0 + Len(w) <= Len(w) /\ capacity[s] <= Len(w)
    BY <1>1
  <2> QED
    BY <1>1, <2>1, StoredFacts
<1> HIDE DEF D
<1>4. /\ \A i \in DOMAIN D : D[i] \in Cell
      /\ DOMAIN D = 0 .. Len(w) /\ (Len(w) > 0 => D[Len(w)] = Nul)
      /\ \A i \in 1 .. Len(w) : D[i - 1] = w[i]
  BY <1>1, <1>3
<1>5. /\ StringInv' /\ data'[s] = D /\ length'[s] = Len(w)
      /\ \A t \in Str \ {s} : Contents(t)' = Contents(t)
  <2>1. lost' \subseteq lost \cup {s} /\ Len(w) <= Len(w)
    BY <1>1, <1>2
  <2> QED
    <3>1. Becomes(s, D, Len(w), Len(w))
      BY <1>1, <1>2, <1>4, <2>1 DEF Becomes
    <3> QED
      BY <3>1, OneChanged
<1>6. Contents(s) = <<>>
  BY <1>1 DEF Contents
<1>7. Contents(s)' = w
  <2> DEFINE t == Contents(s)'
  <2>1. t \in Seq(Cell) /\ Len(t) = length'[s] /\ \A i \in 1 .. length'[s] : t[i] = data'[s][i - 1]
    BY <1>5, InvContentsNext DEF ContentsAre
  <2> HIDE DEF t
  <2>2. t = w
    BY <1>4, <1>5, <2>1, SeqEqual
  <2> QED
    BY <2>2 DEF t
<1> QED
  BY <1>1, <1>5, <1>6, <1>7

\* More memory changes no byte.
LEMMA ReserveFacts ==
  ASSUME StringInv, NEW s \in Str, NEW cap \in Nat, Reserve(s, cap)
  PROVE  StringInv' /\ UNCHANGED lost /\ \A t \in Str : Contents(t)' = Contents(t)
<1> DEFINE B == Block(s, cap)
<1>1. length[s] \in Nat /\ capacity[s] \in Nat /\ length[s] <= capacity[s] /\ capacity[s] < cap
  BY OneString DEF Reserve
<1>2. /\ data' = [data EXCEPT ![s] = B] /\ length' = [length EXCEPT ![s] = length[s]]
      /\ capacity' = [capacity EXCEPT ![s] = cap] /\ lost' = lost
  BY DEF Reserve, StringInv, TypeOK
<1>3. /\ DOMAIN B = 0 .. cap
      /\ \A i \in 0 .. cap : B[i] = IF i \in DOMAIN data[s] THEN data[s][i] ELSE Garbage
  BY DEF Block
<1>4. \A i \in DOMAIN B : B[i] \in Cell
  BY <1>3, OneString DEF Cell
<1> HIDE DEF B
<1>5. length[s] > 0 => B[length[s]] = Nul
  <2>1. length[s] > 0 => length[s] \in DOMAIN data[s] /\ length[s] \in 0 .. cap
    BY <1>1, OneString
  <2>2. length[s] > 0 => data[s][length[s]] = Nul
    BY DEF StringInv, Terminated
  <2> QED
    BY <1>3, <2>1, <2>2
<1>6. /\ StringInv' /\ data'[s] = B /\ length'[s] = length[s]
      /\ \A t \in Str \ {s} : Contents(t)' = Contents(t)
  <2>1. length[s] <= cap /\ lost' \subseteq lost \cup {s} /\ DOMAIN B = 0 .. cap
    BY <1>1, <1>2, <1>3
  <2> QED
    <3>1. Becomes(s, B, length[s], cap)
      BY <1>1, <1>2, <1>4, <1>5, <2>1 DEF Becomes
    <3> QED
      BY <3>1, OneChanged
<1>7. Contents(s)' = Contents(s)
  <2>1. ASSUME NEW i \in 1 .. length[s]
        PROVE  B[i - 1] = data[s][i - 1]
    <3>1. i - 1 \in DOMAIN data[s] /\ i - 1 \in 0 .. cap
      BY <1>1, OneString
    <3> QED
      BY <1>3, <3>1
  <2>2. [i \in 1 .. length[s] |-> B[i - 1]] = [i \in 1 .. length[s] |-> data[s][i - 1]]
    BY <2>1
  <2> QED
    BY <1>6, <2>2 DEF Contents
<1> QED
  BY <1>2, <1>6, <1>7

\* A string that is cleared or destroyed is empty.
LEMMA EmptiedFacts ==
  ASSUME StringInv, NEW s \in Str, Clear(s) \/ Destroy(s)
  PROVE  /\ StringInv' /\ lost' = lost \ {s} /\ Contents(s)' = <<>>
         /\ \A t \in Str \ {s} : Contents(t)' = Contents(t)
<1>1. capacity[s] \in Nat /\ TypeOK
  BY OneString DEF StringInv
<1>2. lost' = lost \ {s} /\ lost' \subseteq lost \cup {s} /\ s \notin lost'
  BY DEF Clear, Destroy
<1>3. \E d, c : Becomes(s, d, 0, c)
  <2>1. CASE Clear(s) /\ IsNull(s)
    <3>1. /\ data' = [data EXCEPT ![s] = data[s]] /\ length' = [length EXCEPT ![s] = 0]
          /\ capacity' = [capacity EXCEPT ![s] = capacity[s]]
      BY <1>1, <2>1 DEF Clear, TypeOK
    <3>2. DOMAIN data[s] = {} /\ capacity[s] = 0
      BY <2>1, OneString DEF IsNull
    <3>3. Becomes(s, data[s], 0, capacity[s])
      BY <1>2, <3>1, <3>2 DEF Becomes
    <3> QED
      BY <3>3
  <2>2. CASE Clear(s) /\ ~IsNull(s)
    <3> DEFINE d == [data[s] EXCEPT ![0] = Nul]
    <3>1. /\ data' = [data EXCEPT ![s] = d] /\ length' = [length EXCEPT ![s] = 0]
          /\ capacity' = [capacity EXCEPT ![s] = capacity[s]]
      BY <1>1, <2>2 DEF Clear, TypeOK
    <3>2. DOMAIN d = 0 .. capacity[s] /\ \A i \in DOMAIN d : d[i] \in Cell
      BY <2>2, OneString DEF IsNull, Cell
    <3> HIDE DEF d
    <3>3. Becomes(s, d, 0, capacity[s])
      BY <1>1, <1>2, <3>1, <3>2 DEF Becomes
    <3> QED
      BY <3>3
  <2>3. CASE Destroy(s)
    <3>1. DOMAIN <<>> = {}
      OBVIOUS
    <3>2. Becomes(s, <<>>, 0, 0)
      BY <1>2, <2>3, <3>1 DEF Becomes, Destroy
    <3> QED
      BY <3>2
  <2> QED
    BY <2>1, <2>2, <2>3
<1>4. /\ StringInv' /\ length'[s] = 0 /\ \A t \in Str \ {s} : Contents(t)' = Contents(t)
  BY <1>3, OneChanged
<1>5. Contents(s)' = <<>>
  BY <1>4 DEF Contents
<1> QED
  BY <1>2, <1>4, <1>5

-----------------------------------------------------------------------------
(* Strings: the text they hold                                             *)

\* One string changes.
LEMMA TextChanges ==
  ASSUME NEW s \in Str, \A t \in Str \ {s} : Contents(t)' = Contents(t)
  PROVE  text' = [text EXCEPT ![s] = Contents(s)'] /\ text[s] = Contents(s) /\ text'[s] = Contents(s)'
<1>1. text' = [t \in Str |-> Contents(t)']
  BY DEF text
<1>2. [text EXCEPT ![s] = Contents(s)'] = [t \in Str |-> IF t = s THEN Contents(s)' ELSE Contents(t)]
  BY DEF text
<1> QED
  BY <1>1, <1>2 DEF text

\* What is appended are bytes the abstract strings have, too.
LEMMA SourcesFacts ==
  ASSUME StringInv
  PROVE  /\ Literals \subseteq Strings!Sources
         /\ \A t \in Str \ lost : Subslices(t) \subseteq Strings!Sources
<1>1. ASSUME NEW t \in Str \ lost
      PROVE  Subslices(t) \subseteq Strings!Sources
  <2>1. Len(Contents(t)) = length[t]
    BY ContentsFacts
  <2>2. Strings!Slices(Contents(t)) = Subslices(t)
    BY <2>1 DEF Strings!Slices, Subslices
  <2> QED
    BY <2>2 DEF Strings!Sources
<1> QED
  BY <1>1 DEF Strings!Sources

\* A known string that goes on with such bytes is extended.
LEMMA Extends ==
  ASSUME NEW s \in Str \ lost, NEW w \in Strings!Sources,
         Contents(s)' = Contents(s) \o w, UNCHANGED lost,
         \A t \in Str \ {s} : Contents(t)' = Contents(t)
  PROVE  Strings!Next
<1>1. text' = [text EXCEPT ![s] = text[s] \o w]
  BY TextChanges
<1>2. Strings!Extend(s)
  BY <1>1 DEF Strings!Extend, text
<1> QED
  BY <1>2 DEF Strings!Next

\* A string that goes on with any bytes keeps what it was as its beginning.
LEMMA Loses ==
  ASSUME StringInv, StringInv', NEW s \in Str, NEW w \in Seq(Cell),
         Contents(s)' = Contents(s) \o w, lost' = lost \cup {s},
         \A t \in Str \ {s} : Contents(t)' = Contents(t)
  PROVE  Strings!Next
<1> DEFINE u == Contents(s)
           v == Contents(s)'
<1>1. u \in Seq(Cell) /\ v \in Seq(Cell) /\ v = u \o w /\ Len(u) \in Nat /\ Len(w) \in Nat
  BY ContentsFacts, InvContentsNext, LenProperties DEF ContentsAre
<1>2. text' = [text EXCEPT ![s] = v] /\ text[s] = u /\ text'[s] = v
  BY TextChanges
<1> HIDE DEF u, v
<1>3. /\ Len(v) = Len(u) + Len(w)
      /\ \A i \in 1 .. Len(u) + Len(w) : v[i] = IF i <= Len(u) THEN u[i] ELSE w[i - Len(u)]
  BY <1>1, ConcatProperties, Zenon
<1>4. Len(u) <= Len(v) /\ \A i \in 1 .. Len(u) : v[i] = u[i]
  BY <1>1, <1>3
<1>5. Len(u) \in 0 .. Len(v) /\ SubSeq(v, 1, Len(u)) = u
  BY <1>1, <1>4, IsBeginning
<1>6. /\ \E n \in 0 .. Len(text'[s]) : SubSeq(text'[s], 1, n) = text[s]
      /\ text' = [text EXCEPT ![s] = text'[s]]
  BY <1>2, <1>5
<1>7. Strings!Lose(s)
  BY <1>6 DEF Strings!Lose, text
<1> QED
  BY <1>7 DEF Strings!Next

\* An append, to a known string or to one that is lost.
LEMMA Appends ==
  ASSUME StringInv, NEW s \in Str, NEW w \in Seq(Cell), w \in Strings!Sources,
         AppendBytes(s, w), UNCHANGED lost
  PROVE  StringInv' /\ Strings!Next
<1>1. /\ StringInv' /\ Contents(s)' = Contents(s) \o w
      /\ \A t \in Str \ {s} : Contents(t)' = Contents(t)
  BY AppendBytesFacts
<1>2. CASE s \in lost
  <2>1. lost' = lost \cup {s}
    BY <1>2
  <2> QED
    BY <1>1, <2>1, Loses
<1>3. CASE s \notin lost
  BY <1>1, <1>3, Extends
<1> QED
  BY <1>1, <1>2, <1>3

\* An empty string.
LEMMA Empties ==
  ASSUME NEW s \in Str, Contents(s)' = <<>>, lost' = lost \ {s},
         \A t \in Str \ {s} : Contents(t)' = Contents(t)
  PROVE  Strings!Next
<1>1. text' = [text EXCEPT ![s] = <<>>]
  BY TextChanges
<1>2. Strings!Empty(s)
  BY <1>1 DEF Strings!Empty, text
<1> QED
  BY <1>2 DEF Strings!Next

\* Every operation keeps the invariant, and is one of the abstract strings.
LEMMA StringNext ==
  ASSUME StringInv, [Next]_vars
  PROVE  StringInv' /\ [Strings!Next]_<<text, lost>>
<1>1. ASSUME NEW s \in Str, NEW w, w \in Seq(Cell) /\ w \in Strings!Sources,
             AppendSlice(s, w) \/ FromSlice(s, w)
      PROVE  StringInv' /\ Strings!Next
  <2>1. CASE AppendSlice(s, w)
    BY <1>1, <2>1, Appends DEF AppendSlice
  <2>2. CASE FromSlice(s, w)
    <3>1. /\ StringInv' /\ Contents(s) = <<>> /\ Contents(s)' = w /\ s \notin lost
          /\ \A t \in Str \ {s} : Contents(t)' = Contents(t)
      BY <1>1, <2>2, FromSliceFacts
    <3>2. <<>> \o w = w
      BY <1>1, ConcatEmptySeq
    <3>3. Contents(s)' = Contents(s) \o w /\ UNCHANGED lost
      BY <2>2, <3>1, <3>2 DEF FromSlice
    <3> QED
      BY <1>1, <3>1, <3>3, Extends
  <2> QED
    BY <1>1, <2>1, <2>2
<1>2. ASSUME NEW s \in Str, s \notin lost, NEW w \in Subslices(s), AppendOwn(s, w)
      PROVE  StringInv' /\ Strings!Next
  <2>1. w \in Seq(Cell) /\ w \in Strings!Sources
    BY <1>2, SliceFacts, SourcesFacts
  <2>2. CASE AppendBytes(s, w) /\ UNCHANGED lost
    BY <2>1, <2>2, Appends
  <2>3. CASE AppendBytes(s, [i \in 1 .. Len(w) |-> Garbage]) /\ lost' = lost \cup {s}
    <3> DEFINE g == [i \in 1 .. Len(w) |-> Garbage]
    <3>1. Len(w) \in Nat /\ g \in [1 .. Len(w) -> Cell]
      BY <2>1, LenProperties DEF Cell
    <3>2. g \in Seq(Cell)
      BY <3>1, SeqDef
    <3> HIDE DEF g
    <3>3. AppendBytes(s, g) /\ lost' \subseteq lost \cup {s}
      BY <2>3 DEF g
    <3>4. /\ StringInv' /\ Contents(s)' = Contents(s) \o g
          /\ \A t \in Str \ {s} : Contents(t)' = Contents(t)
      BY <3>2, <3>3, AppendBytesFacts
    <3> QED
      BY <2>3, <3>2, <3>4, Loses
  <2> QED
    BY <1>2, <2>2, <2>3 DEF AppendOwn
<1>3. ASSUME NEW s \in Str, NEW cap \in 1 .. MaxLength, Reserve(s, cap)
      PROVE  StringInv' /\ UNCHANGED <<text, lost>>
  <2>1. cap \in Nat
    BY LiteralsAssumption
  <2> QED
    BY <1>3, <2>1, ReserveFacts DEF text
<1>4. ASSUME NEW s \in Str, Clear(s) \/ Destroy(s)
      PROVE  StringInv' /\ Strings!Next
  BY <1>4, EmptiedFacts, Empties
<1>5. CASE UNCHANGED <<data, length, capacity, lost>>
  <2>1. StringInv'
    BY <1>5 DEF StringInv, TypeOK, Terminated, IsNull
  <2> QED
    BY <1>5, <2>1 DEF text, Contents
<1>6. \A s \in Str : /\ \A w : AppendFails(s, w) => UNCHANGED <<data, length, capacity, lost>>
                     /\ AppendNothing(s) => UNCHANGED <<data, length, capacity, lost>>
  BY DEF AppendFails, AppendNothing, vars
<1>7. CASE UNCHANGED vars
  BY <1>5, <1>7 DEF vars
<1>8. CASE Next
  <2>1. PICK s \in Str :
           \/ \E w \in Literals : AppendSlice(s, w) \/ AppendFails(s, w) \/ FromSlice(s, w)
           \/ \E t \in Str \ ({s} \cup lost) : \E w \in Subslices(t) :
                AppendSlice(s, w) \/ FromSlice(s, w)
           \/ \E w \in Subslices(s) : s \notin lost /\ AppendOwn(s, w)
           \/ \E cap \in 1 .. MaxLength : Reserve(s, cap)
           \/ AppendNothing(s) \/ Clear(s) \/ Destroy(s)
    BY <1>8 DEF Next
  <2>2. \A w \in Literals : w \in Seq(Cell) /\ w \in Strings!Sources
    BY SliceFacts, SourcesFacts
  <2>3. \A t \in Str \ ({s} \cup lost) : \A w \in Subslices(t) : w \in Seq(Cell) /\ w \in Strings!Sources
    BY SliceFacts, SourcesFacts
  <2> QED
    BY <1>1, <1>2, <1>3, <1>4, <1>5, <1>6, <2>1, <2>2, <2>3
<1> QED
  BY <1>7, <1>8

\* Strings start without blocks.
LEMMA StringInit == Init => StringInv /\ Strings!Init
<1> SUFFICES ASSUME Init PROVE StringInv /\ Strings!Init
  OBVIOUS
<1>1. DOMAIN <<>> = {} /\ 1 .. 0 = {}
  OBVIOUS
<1>2. ASSUME NEW s \in Str
      PROVE  DOMAIN data[s] = {} /\ length[s] = 0 /\ capacity[s] = 0 /\ s \notin lost
  BY <1>1 DEF Init
<1>3. TypeOK
  BY DEF Init, TypeOK
<1>4. StringInv
  BY <1>2, <1>3, SMTT(30) DEF StringInv, Terminated, IsNull
<1>5. Strings!Init
  BY <1>1 DEF Init, Strings!Init, Contents
<1> QED
  BY <1>4, <1>5

-----------------------------------------------------------------------------
(* Strings: the theorems                                                   *)

\* A step of the program is one of the strings, or leaves them alone.
LEMMA StringSteps ==
  ASSUME [MCNext]_<<active, vars, rcVars>>
  PROVE  [Next]_vars
  BY DEF MCNext

\* Through every growth, clear and refused growth, the block is as large as the
\* capacity says and a string is followed by its terminator.
THEOREM StringsTerminated == MCSpec => []Terminated
<1>1. MCInit => StringInv
  BY StringInit DEF MCInit
<1>2. StringInv /\ [MCNext]_<<active, vars, rcVars>> => StringInv'
  BY StringNext, StringSteps
<1>3. StringInv => Terminated
  BY DEF StringInv
<1> QED
  BY <1>1, <1>2, <1>3, PTL DEF MCSpec

\* Strings hold the bytes that were appended, in order, and no string changes another,
\* except for one that was appended to itself while its block moved.
THEOREM StringsImplementText == MCSpec => ImplementsText
<1>1. MCInit => StringInv /\ Strings!Init
  BY StringInit DEF MCInit
<1>2. StringInv /\ [MCNext]_<<active, vars, rcVars>> => StringInv' /\ [Strings!Next]_<<text, lost>>
  BY StringNext, StringSteps
<1> QED
  BY <1>1, <1>2, PTL DEF MCSpec, ImplementsText, Strings!Spec, text

-----------------------------------------------------------------------------
(* Handles                                                                 *)

\* The instance counts handles as the theorems about sets do.
LEMMA SameCardinality ==
  \A S : Rc!Cardinality(S) = Cardinality(S) /\ (Rc!IsFiniteSet(S) <=> IsFiniteSet(S))
  BY Zenon DEF Rc!Cardinality, Rc!IsFiniteSet, Cardinality, IsFiniteSet

\* The handles of a container.
HandlesOf(c) == {h \in Handle : inner[h] = c}

\* The inductive invariant.
RcInv ==
  /\ inner \in [Handle -> Container \cup {None}]
  /\ Rc!Held \subseteq Container /\ ref_count = [c \in Rc!Held |-> ref_count[c]]
  /\ dropped \in [Container -> {0, 1}]
  /\ \A h \in Handle : inner[h] \in Rc!Held \cup {None}
  /\ \A c \in Rc!Held : /\ ref_count[c] = Cardinality(HandlesOf(c))
                         /\ ref_count[c] \in Nat \ {0} /\ dropped[c] = 0

\* There are finitely many handles, and null is no container.
LEMMA HandlesFinite ==
  /\ None \notin Container
  /\ \A T : T \subseteq Handle => IsFiniteSet(T) /\ Cardinality(T) \in Nat
<1>1. None \notin Container /\ Rc!IsFiniteSet(Handle)
  BY InstancesOK DEF Rc!ConstantsOK
<1>2. IsFiniteSet(Handle)
  BY <1>1, SameCardinality, Zenon
<1> QED
  BY <1>1, <1>2, FS_Subset, FS_CardinalityType

\* The first handle of a container.
LEMMA RcCreate ==
  ASSUME RcInv, NEW h \in Handle, NEW c \in Container, Rc!Create(h, c)
  PROVE  RcInv'
<1>1. /\ inner[h] = None /\ c \notin Rc!Held /\ inner' = [inner EXCEPT ![h] = c]
      /\ ref_count' = [x \in Rc!Held \cup {c} |-> IF x = c THEN 1 ELSE ref_count[x]]
      /\ dropped' = [dropped EXCEPT ![c] = 0]
  BY DEF Rc!Create
<1>2. Rc!Held' = Rc!Held \cup {c}
  BY <1>1 DEF Rc!Held
<1>3. /\ inner \in [Handle -> Container \cup {None}] /\ Rc!Held \subseteq Container
      /\ dropped \in [Container -> {0, 1}]
      /\ \A g \in Handle : inner[g] \in Rc!Held \cup {None}
      /\ \A d \in Rc!Held : /\ ref_count[d] = Cardinality(HandlesOf(d))
                             /\ ref_count[d] \in Nat \ {0} /\ dropped[d] = 0
  BY DEF RcInv
<1>4. c # None
  BY HandlesFinite
<1>5. \A g \in Handle : inner'[g] = IF g = h THEN c ELSE inner[g]
  BY <1>1, <1>3
<1>6. HandlesOf(c)' = {h}
  BY <1>1, <1>3, <1>4, <1>5 DEF HandlesOf
<1>7. \A d \in Rc!Held : d # c /\ HandlesOf(d)' = HandlesOf(d)
  <2>1. ASSUME NEW d \in Rc!Held
        PROVE  d # c /\ HandlesOf(d)' = HandlesOf(d)
    <3>1. d # c /\ d # None
      BY <1>1, <1>3, HandlesFinite
    <3> QED
      BY <1>1, <1>5, <3>1 DEF HandlesOf
  <2> QED
    BY <2>1
<1>8. Cardinality(HandlesOf(c)') = 1
  BY <1>6, FS_Singleton
<1>9. ASSUME NEW d \in Rc!Held'
      PROVE  /\ ref_count'[d] = Cardinality(HandlesOf(d)')
             /\ ref_count'[d] \in Nat \ {0} /\ dropped'[d] = 0
  <2>1. CASE d = c
    BY <1>1, <1>2, <1>3, <1>8, <2>1
  <2>2. CASE d # c
    <3>1. d \in Rc!Held /\ d \in Container
      BY <1>2, <1>3, <2>2
    <3>2. ref_count'[d] = ref_count[d] /\ dropped'[d] = dropped[d]
      BY <1>1, <1>3, <2>2, <3>1
    <3> QED
      BY <1>3, <1>7, <3>1, <3>2
  <2> QED
    BY <2>1, <2>2
<1>10. inner' \in [Handle -> Container \cup {None}] /\ dropped' \in [Container -> {0, 1}]
  BY <1>1, <1>3
<1>11. Rc!Held' \subseteq Container /\ ref_count' = [d \in Rc!Held' |-> ref_count'[d]]
  BY <1>1, <1>2, <1>3
<1>12. \A g \in Handle : inner'[g] \in Rc!Held' \cup {None}
  BY <1>2, <1>3, <1>5
<1> QED
  BY <1>9, <1>10, <1>11, <1>12 DEF RcInv

\* One handle more.
LEMMA RcClone ==
  ASSUME RcInv, NEW h \in Handle, NEW g \in Handle, h # g, Rc!Clone(h, g)
  PROVE  RcInv'
<1>1. /\ inner[g] = None /\ inner' = [inner EXCEPT ![g] = inner[h]]
      /\ ref_count' = [d \in Rc!Held |-> ref_count[d] + (IF d = inner[h] THEN 1 ELSE 0)]
      /\ dropped' = dropped
  BY DEF Rc!Clone
<1>2. Rc!Held' = Rc!Held
  BY <1>1 DEF Rc!Held
<1>3. /\ inner \in [Handle -> Container \cup {None}] /\ Rc!Held \subseteq Container
      /\ dropped \in [Container -> {0, 1}]
      /\ \A x \in Handle : inner[x] \in Rc!Held \cup {None}
      /\ \A d \in Rc!Held : /\ ref_count[d] = Cardinality(HandlesOf(d))
                             /\ ref_count[d] \in Nat \ {0} /\ dropped[d] = 0
  BY DEF RcInv
<1>4. \A x \in Handle : inner'[x] = IF x = g THEN inner[h] ELSE inner[x]
  BY <1>1, <1>3
<1>5. ASSUME NEW d \in Rc!Held
      PROVE  /\ ref_count'[d] = Cardinality(HandlesOf(d)')
             /\ ref_count'[d] \in Nat \ {0} /\ dropped'[d] = 0
  <2>1. d # None /\ g \notin HandlesOf(d)
    BY <1>1, <1>3, HandlesFinite DEF HandlesOf
  <2>2. ref_count'[d] = ref_count[d] + (IF d = inner[h] THEN 1 ELSE 0)
    BY <1>1
  <2>3. CASE d = inner[h]
    <3>1. HandlesOf(d)' = HandlesOf(d) \cup {g}
      BY <1>4, <2>3 DEF HandlesOf
    <3>2. IsFiniteSet(HandlesOf(d))
      BY HandlesFinite DEF HandlesOf
    <3>3. Cardinality(HandlesOf(d)') = Cardinality(HandlesOf(d)) + 1
      BY <2>1, <3>1, <3>2, FS_AddElement
    <3> QED
      BY <1>1, <1>3, <2>2, <2>3, <3>3
  <2>4. CASE d # inner[h]
    <3>1. HandlesOf(d)' = HandlesOf(d)
      BY <1>4, <2>1, <2>4 DEF HandlesOf
    <3> QED
      BY <1>1, <1>3, <2>2, <2>4, <3>1
  <2> QED
    BY <2>3, <2>4
<1>6. inner' \in [Handle -> Container \cup {None}]
  BY <1>1, <1>3
<1>7. ref_count' = [d \in Rc!Held' |-> ref_count'[d]]
  BY <1>1, <1>2
<1>8. \A x \in Handle : inner'[x] \in Rc!Held' \cup {None}
  BY <1>2, <1>3, <1>4
<1> QED
  BY <1>1, <1>2, <1>3, <1>5, <1>6, <1>7, <1>8 DEF RcInv

\* One handle less, and with the last one the container.
LEMMA RcDestroy ==
  ASSUME RcInv, NEW h \in Handle, Rc!Destroy(h)
  PROVE  RcInv'
<1>0. PICK c : c = inner[h]
  OBVIOUS
<1>1. /\ c # None /\ inner' = [inner EXCEPT ![h] = None]
      /\ ref_count' = [x \in IF ref_count[c] = 1 THEN Rc!Held \ {c} ELSE Rc!Held |->
                         IF x = c THEN ref_count[x] - 1 ELSE ref_count[x]]
      /\ dropped' = [dropped EXCEPT ![c] = @ + (IF ref_count[c] = 1 THEN 1 ELSE 0)]
  BY <1>0 DEF Rc!Destroy, Rc!LastHandle
<1>2. /\ inner \in [Handle -> Container \cup {None}] /\ Rc!Held \subseteq Container
      /\ dropped \in [Container -> {0, 1}]
      /\ \A x \in Handle : inner[x] \in Rc!Held \cup {None}
      /\ \A d \in Rc!Held : /\ ref_count[d] = Cardinality(HandlesOf(d))
                             /\ ref_count[d] \in Nat \ {0} /\ dropped[d] = 0
  BY DEF RcInv
<1>3. Rc!Held' = IF ref_count[c] = 1 THEN Rc!Held \ {c} ELSE Rc!Held
  BY <1>1 DEF Rc!Held
<1>4. c \in Rc!Held /\ c \in Container /\ h \in HandlesOf(c)
  BY <1>0, <1>1, <1>2 DEF HandlesOf
<1>5. /\ ref_count[c] = Cardinality(HandlesOf(c)) /\ ref_count[c] \in Nat \ {0}
      /\ dropped[c] = 0
  BY <1>2, <1>4
<1>6. \A x \in Handle : inner'[x] = IF x = h THEN None ELSE inner[x]
  BY <1>1, <1>2
<1>7. IsFiniteSet(HandlesOf(c))
  BY HandlesFinite DEF HandlesOf
<1>8. HandlesOf(c)' = HandlesOf(c) \ {h}
  BY <1>0, <1>1, <1>6 DEF HandlesOf
<1>9. Cardinality(HandlesOf(c)') = ref_count[c] - 1
  BY <1>4, <1>5, <1>7, <1>8, FS_RemoveElement
<1>10. \A d \in Rc!Held : d # c => HandlesOf(d)' = HandlesOf(d)
  <2>1. \A d \in Rc!Held : d # None
    BY <1>2, HandlesFinite
  <2> QED
    BY <1>0, <1>6, <2>1 DEF HandlesOf
<1>11. ref_count[c] = 1 => \A x \in Handle : inner'[x] # c
  <2> SUFFICES ASSUME ref_count[c] = 1 PROVE \A x \in Handle : inner'[x] # c
    OBVIOUS
  <2>1. Cardinality(HandlesOf(c)') = 0 /\ IsFiniteSet(HandlesOf(c)')
    BY <1>7, <1>8, <1>9, FS_RemoveElement
  <2>2. HandlesOf(c)' = {}
    BY <2>1, FS_EmptySet
  <2> QED
    BY <2>2 DEF HandlesOf
<1>12. \A d \in Container :
         dropped'[d] = IF d = c THEN dropped[d] + (IF ref_count[c] = 1 THEN 1 ELSE 0) ELSE dropped[d]
  BY <1>1, <1>2
<1>13. ASSUME NEW d \in Rc!Held'
       PROVE  /\ ref_count'[d] = Cardinality(HandlesOf(d)')
              /\ ref_count'[d] \in Nat \ {0} /\ dropped'[d] = 0
  <2>1. d \in Rc!Held /\ d \in Container /\ (d = c => ref_count[c] # 1)
    BY <1>2, <1>3
  <2>2. ref_count'[d] = IF d = c THEN ref_count[d] - 1 ELSE ref_count[d]
    BY <1>1, <1>3
  <2>3. CASE d = c
    BY <1>5, <1>9, <1>12, <2>1, <2>2, <2>3
  <2>4. CASE d # c
    BY <1>2, <1>10, <1>12, <2>1, <2>2, <2>4
  <2> QED
    BY <2>3, <2>4
<1>14. inner' \in [Handle -> Container \cup {None}]
  BY <1>1, <1>2
<1>15. dropped' \in [Container -> {0, 1}]
  <2>1. \A d \in Container : dropped'[d] \in {0, 1}
    BY <1>2, <1>5, <1>12
  <2> QED
    BY <1>1, <1>2, <2>1
<1>16. Rc!Held' \subseteq Container /\ ref_count' = [d \in Rc!Held' |-> ref_count'[d]]
  BY <1>1, <1>2, <1>3
<1>17. \A x \in Handle : inner'[x] \in Rc!Held' \cup {None}
  BY <1>2, <1>3, <1>6, <1>11
<1> QED
  BY <1>13, <1>14, <1>15, <1>16, <1>17 DEF RcInv

\* Every operation keeps the invariant.
LEMMA RcNext == RcInv /\ [Rc!Next]_rcVars => RcInv'
<1> SUFFICES ASSUME RcInv, [Rc!Next]_rcVars PROVE RcInv'
  OBVIOUS
<1>1. CASE UNCHANGED <<inner, ref_count, dropped>>
  BY <1>1 DEF RcInv, Rc!Held, HandlesOf
<1>2. CASE UNCHANGED rcVars
  BY <1>1, <1>2 DEF rcVars
<1>3. \A h \in Handle : Rc!DestroyEmpty(h) => UNCHANGED <<inner, ref_count, dropped>>
  BY DEF Rc!DestroyEmpty
<1>4. CASE Rc!Next
  BY <1>1, <1>3, <1>4, RcCreate, RcClone, RcDestroy DEF Rc!Next
<1> QED
  BY <1>2, <1>4

\* The count of a container is the number of its handles, none of which outlives it,
\* and each container that is gone was destroyed once.
THEOREM HandlesCounted == MCSpec => []Counted
<1>1. MCInit => RcInv
  <2> SUFFICES ASSUME MCInit PROVE RcInv
    OBVIOUS
  <2>1. /\ inner = [h \in Handle |-> None] /\ ref_count = <<>>
        /\ dropped = [c \in Container |-> 0]
    BY DEF MCInit, Rc!Init
  <2>2. Rc!Held = {} /\ ref_count = [c \in Rc!Held |-> ref_count[c]]
    BY <2>1 DEF Rc!Held
  <2> QED
    BY <2>1, <2>2 DEF RcInv
<1>2. RcInv /\ [MCNext]_<<active, vars, rcVars>> => RcInv'
  BY RcNext DEF MCNext
<1>3. RcInv => Counted
  <2> SUFFICES ASSUME RcInv PROVE Rc!Counted
    BY DEF Counted
  <2>1. \A c \in Rc!Held : ref_count[c] = Rc!Cardinality({h \in Handle : inner[h] = c})
    <3>1. \A c \in Rc!Held : ref_count[c] = Cardinality({h \in Handle : inner[h] = c})
      BY DEF RcInv, HandlesOf
    <3> QED
      BY <3>1, SameCardinality, Zenon
  <2>2. \A c \in Rc!Held : ref_count[c] > 0 /\ dropped[c] = 0
    BY DEF RcInv
  <2>3. \A c \in Container : dropped[c] <= 1
    BY DEF RcInv
  <2>4. \A h \in Handle : inner[h] \in Rc!Held \cup {None}
    BY DEF RcInv
  <2> QED
    BY <2>1, <2>2, <2>3, <2>4, Zenon DEF Rc!Counted
<1> QED
  BY <1>1, <1>2, <1>3, PTL DEF MCSpec
=============================================================================
