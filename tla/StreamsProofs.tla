--------------------------- MODULE StreamsProofs ---------------------------
(***************************************************************************)
(* Proofs about FStream and MemStream, for every set of bytes, sizes of    *)
(* the buffer, length of calls and files, and whatever fails.              *)
(***************************************************************************)
EXTENDS MCStreams, SequenceTheorems, FiniteSetTheorems, TLAPS

-----------------------------------------------------------------------------
(* Sequences and files                                                     *)

\* The sequences of a set's elements are those of a larger one, too.
LEMMA SeqLarger ==
  ASSUME NEW S, NEW T, S \subseteq T, NEW s \in Seq(S)
  PROVE  s \in Seq(T)
<1>1. Len(s) \in Nat /\ DOMAIN s = 1 .. Len(s) /\ s \in [1 .. Len(s) -> S]
  BY LenProperties
<1>2. s \in [1 .. Len(s) -> T]
  BY <1>1
<1> QED
  BY <1>1, <1>2, SeqDef

\* The first elements of a sequence.
LEMMA FirstFacts ==
  ASSUME NEW S, NEW s \in Seq(S), NEW n \in 0 .. Len(s)
  PROVE  /\ SubSeq(s, 1, n) \in Seq(S) /\ Len(SubSeq(s, 1, n)) = n
         /\ \A i \in 1 .. n : SubSeq(s, 1, n)[i] = s[i]
<1>1. Len(s) \in Nat /\ n \in Nat
  BY LenProperties
<1>2. \A i \in 1 .. n : s[i] \in S
  <2>1. \A i \in 1 .. n : i \in 1 .. Len(s)
    BY <1>1
  <2> QED
    BY <2>1, ElementOfSeq
<1>3. /\ SubSeq(s, 1, n) \in Seq(S)
      /\ Len(SubSeq(s, 1, n)) = IF 1 <= n THEN n - 1 + 1 ELSE 0
      /\ \A i \in 1 .. n - 1 + 1 : SubSeq(s, 1, n)[i] = s[1 + i - 1]
  BY <1>1, <1>2, SubSeqProperties
<1>4. Len(SubSeq(s, 1, n)) = n
  BY <1>1, <1>3
<1>5. \A i \in 1 .. n : i \in 1 .. n - 1 + 1 /\ 1 + i - 1 = i
  BY <1>1
<1> QED
  BY <1>3, <1>4, <1>5

\* What a write of some bytes makes of a file.
LEMMA OverwriteFacts ==
  ASSUME NEW S, Zero \in S, NEW f \in Seq(S), NEW p \in Nat, NEW w \in Seq(S), w # <<>>
  PROVE  /\ Overwrite(f, p, w) \in Seq(S)
         /\ Len(Overwrite(f, p, w)) = Larger(Len(f), p + Len(w))
         /\ \A i \in 1 .. Larger(Len(f), p + Len(w)) :
              Overwrite(f, p, w)[i] = IF i > p /\ i <= p + Len(w) THEN w[i - p]
                                      ELSE IF i <= Len(f) THEN f[i] ELSE Zero
<1> DEFINE n == Larger(Len(f), p + Len(w))
           g == Overwrite(f, p, w)
<1>1. Len(f) \in Nat /\ Len(w) \in Nat
  BY LenProperties
<1>2. n \in Nat
  BY <1>1 DEF Larger
<1>3. g = [i \in 1 .. n |-> IF i > p /\ i <= p + Len(w) THEN w[i - p]
                            ELSE IF i <= Len(f) THEN f[i] ELSE Zero]
  BY DEF Overwrite
<1> HIDE DEF g, n
<1>4. ASSUME NEW i \in 1 .. n
      PROVE  g[i] \in S
  <2>1. CASE i > p /\ i <= p + Len(w)
    <3>1. i - p \in 1 .. Len(w)
      BY <1>1, <2>1
    <3> QED
      BY <1>3, <2>1, <3>1, ElementOfSeq
  <2>2. CASE ~(i > p /\ i <= p + Len(w)) /\ i <= Len(f)
    <3>1. i \in 1 .. Len(f)
      BY <1>1, <2>2
    <3> QED
      BY <1>3, <2>2, <3>1, ElementOfSeq
  <2>3. CASE ~(i > p /\ i <= p + Len(w)) /\ ~(i <= Len(f))
    BY <1>3, <2>3
  <2> QED
    BY <2>1, <2>2, <2>3
<1>5. g \in [1 .. n -> S]
  BY <1>3, <1>4
<1>6. g \in Seq(S) /\ Len(g) = n
  BY <1>2, <1>5, SeqDef, LenProperties
<1> QED
  BY <1>3, <1>6 DEF g, n

\* A write is of bytes, whether there are some or none.
LEMMA OverwriteType ==
  ASSUME NEW S, Zero \in S, NEW f \in Seq(S), NEW p \in Nat, NEW w \in Seq(S)
  PROVE  Overwrite(f, p, w) \in Seq(S)
<1>1. CASE w = <<>>
  BY <1>1 DEF Overwrite
<1>2. CASE w # <<>>
  BY <1>2, OverwriteFacts
<1> QED
  BY <1>1, <1>2

\* The sequence of one byte.
One(e) == <<e>>

\* Writing one byte more is to write the byte behind the others.
LEMMA OverwriteAppend ==
  ASSUME NEW f \in Seq(FileByte), NEW p \in Nat, NEW w \in Seq(FileByte), NEW e \in FileByte
  PROVE  Overwrite(f, p, Append(w, e)) = Overwrite(Overwrite(f, p, w), p + Len(w), One(e))
<1> DEFINE v == Append(w, e)
           n == Len(w)
           g == Overwrite(f, p, w)
           one == One(e)
           x == Overwrite(f, p, v)
           y == Overwrite(g, p + n, one)
<1>0. Zero \in FileByte
  BY DEF FileByte
<1>1. /\ v \in Seq(FileByte) /\ Len(v) = n + 1 /\ v[n + 1] = e /\ v # <<>>
      /\ \A i \in 1 .. n : v[i] = w[i]
  BY AppendProperties
<1>2. one \in Seq(FileByte) /\ Len(one) = 1 /\ one[1] = e /\ one # <<>>
  BY DEF One
<1>3. n \in Nat /\ Len(f) \in Nat
  BY LenProperties
<1>4. g \in Seq(FileByte) /\ Len(g) \in Nat
  BY <1>0, OverwriteType, LenProperties
<1>5. w # <<>> => /\ Len(g) = Larger(Len(f), p + n)
                  /\ \A i \in 1 .. Larger(Len(f), p + n) :
                       g[i] = IF i > p /\ i <= p + n THEN w[i - p]
                              ELSE IF i <= Len(f) THEN f[i] ELSE Zero
  BY <1>0, OverwriteFacts
<1>6. w = <<>> => g = f /\ n = 0
  BY DEF Overwrite
<1> HIDE DEF v, n, g, one
<1>7. /\ x \in Seq(FileByte) /\ Len(x) = Larger(Len(f), p + (n + 1))
      /\ \A i \in 1 .. Larger(Len(f), p + (n + 1)) :
           x[i] = IF i > p /\ i <= p + (n + 1) THEN v[i - p]
                  ELSE IF i <= Len(f) THEN f[i] ELSE Zero
  <2>1. v \in Seq(FileByte) /\ v # <<>> /\ Len(v) = n + 1
    BY <1>1
  <2>2. /\ x \in Seq(FileByte) /\ Len(x) = Larger(Len(f), p + Len(v))
        /\ \A i \in 1 .. Larger(Len(f), p + Len(v)) :
             x[i] = IF i > p /\ i <= p + Len(v) THEN v[i - p]
                    ELSE IF i <= Len(f) THEN f[i] ELSE Zero
    BY <1>0, <2>1, OverwriteFacts, Zenon
  <2> HIDE DEF x
  <2> QED
    BY <2>1, <2>2
<1>8. /\ y \in Seq(FileByte) /\ Len(y) = Larger(Len(g), (p + n) + 1)
      /\ \A i \in 1 .. Larger(Len(g), (p + n) + 1) :
           y[i] = IF i > p + n /\ i <= (p + n) + 1 THEN one[i - (p + n)]
                  ELSE IF i <= Len(g) THEN g[i] ELSE Zero
  <2>1. p + n \in Nat
    BY <1>3
  <2>2. /\ y \in Seq(FileByte) /\ Len(y) = Larger(Len(g), (p + n) + Len(one))
        /\ \A i \in 1 .. Larger(Len(g), (p + n) + Len(one)) :
             y[i] = IF i > p + n /\ i <= (p + n) + Len(one) THEN one[i - (p + n)]
                    ELSE IF i <= Len(g) THEN g[i] ELSE Zero
    BY <1>0, <1>2, <1>4, <2>1, OverwriteFacts, ZenonT(30)
  <2> HIDE DEF y
  <2> QED
    BY <1>2, <2>2
<1> HIDE DEF x, y
<1>9. n = 0 <=> w = <<>>
  BY EmptySeq DEF n
<1>10. Len(x) = Len(y)
  <2>1. CASE w = <<>>
    BY <1>3, <1>6, <1>7, <1>8, <2>1 DEF Larger
  <2>2. CASE w # <<>>
    BY <1>3, <1>5, <1>7, <1>8, <2>2 DEF Larger
  <2> QED
    BY <2>1, <2>2
<1>11. ASSUME NEW i \in 1 .. Len(x)
       PROVE  x[i] = y[i]
  <2>1. /\ x[i] = IF i > p /\ i <= p + (n + 1) THEN v[i - p]
                  ELSE IF i <= Len(f) THEN f[i] ELSE Zero
        /\ y[i] = IF i > p + n /\ i <= (p + n) + 1 THEN one[i - (p + n)]
                  ELSE IF i <= Len(g) THEN g[i] ELSE Zero
    BY <1>7, <1>8, <1>10
  <2>2. CASE i = p + n + 1
    <3>1. i > p /\ i <= p + (n + 1) /\ i - p = n + 1 /\ i > p + n /\ i <= (p + n) + 1 /\ i - (p + n) = 1
      BY <1>3, <2>2
    <3> QED
      BY <1>1, <1>2, <2>1, <3>1
  <2>3. CASE i > p /\ i <= p + n
    <3>1. w # <<>> /\ i - p \in 1 .. n
      BY <1>3, <1>9, <2>3
    <3>2. i \in 1 .. Larger(Len(f), p + n) /\ i <= Larger(Len(f), p + n)
      BY <1>3, <2>3 DEF Larger
    <3>3. g[i] = w[i - p] /\ i <= Len(g)
      BY <1>5, <2>3, <3>1, <3>2
    <3>4. x[i] = w[i - p]
      BY <1>1, <1>3, <2>1, <2>3, <3>1
    <3>5. ~(i > p + n)
      BY <1>3, <2>3
    <3> QED
      BY <2>1, <3>3, <3>4, <3>5
  <2>4. CASE i <= p \/ i > p + n + 1
    <3>1. /\ ~(i > p /\ i <= p + (n + 1)) /\ ~(i > p + n /\ i <= (p + n) + 1)
          /\ ~(i > p /\ i <= p + n) /\ i \in Int /\ i >= 1
      BY <1>3, <2>4
    <3>2. x[i] = IF i <= Len(f) THEN f[i] ELSE Zero
      BY <2>1, <3>1
    <3>3. y[i] = IF i <= Len(g) THEN g[i] ELSE Zero
      BY <2>1, <3>1
    <3>4. CASE w = <<>>
      BY <1>6, <3>2, <3>3, <3>4
    <3>5. CASE w # <<>> /\ i <= Len(g)
      <4>1. g[i] = IF i <= Len(f) THEN f[i] ELSE Zero
        BY <1>4, <1>5, <3>1, <3>5
      <4> QED
        BY <3>2, <3>3, <3>5, <4>1
    <3>6. CASE w # <<>> /\ ~(i <= Len(g))
      <4>1. ~(i <= Len(f))
        BY <1>3, <1>4, <1>5, <3>1, <3>6 DEF Larger
      <4> QED
        BY <3>2, <3>3, <3>6, <4>1
    <3> QED
      BY <3>4, <3>5, <3>6
  <2>5. i \in Int /\ p \in Int /\ n \in Int
    BY <1>3
  <2>6. i = p + n + 1 \/ (i > p /\ i <= p + n) \/ (i <= p \/ i > p + n + 1)
    BY <2>5
  <2> QED
    BY <2>2, <2>3, <2>4, <2>6
<1>12. x = y
  BY <1>7, <1>8, <1>10, <1>11, SeqEqual
<1> QED
  BY <1>12 DEF x, y, v, n, g, one

-----------------------------------------------------------------------------
(* The buffered stream                                                     *)

\* While reading, the first k bytes of the buffer are the file's, up to the
\* descriptor's offset, and the others are no bytes of the file's: it has ended.
Ahead(k) ==
  /\ k <= offset
  /\ \A i \in 1 .. k : offset - k + i \in 1 .. Len(file) /\ buffer[i] = file[offset - k + i]
  /\ \A i \in k + 1 .. Len(buffer) : buffer[i] = Garbage
  /\ k < Len(buffer) => Len(file) <= offset

\* The invariant that is inductive: ReadsAhead alone does not say that the bytes
\* of the file come before those that are not.
StreamInv ==
  /\ TypeOK
  /\ mode = "reading" => \E k \in 0 .. Len(buffer) : Ahead(k)

LEMMA CapacityType ==
  ASSUME TypeOK
  PROVE  capacity \in Nat
BY SizesAssumption DEF TypeOK

LEMMA WriteOffsetType ==
  ASSUME TypeOK
  PROVE  WriteOffset \in Nat
BY LenProperties DEF TypeOK, WriteOffset

\* How much of the buffer is the file's is what the position is counted by.
LEMMA AheadPos ==
  ASSUME TypeOK, mode = "reading", NEW k \in 0 .. Len(buffer), Ahead(k)
  PROVE  /\ Pos = offset - k
         /\ \A i \in DOMAIN buffer : (buffer[i] # Garbage <=> i <= k)
<1>1. /\ buffer \in Seq(FileByte \cup {Garbage}) /\ file \in Seq(FileByte)
      /\ Len(buffer) \in Nat /\ Len(file) \in Nat /\ DOMAIN buffer = 1 .. Len(buffer)
      /\ k \in Nat /\ offset \in Nat
  BY LenProperties DEF TypeOK
<1>2. \A i \in 1 .. k : buffer[i] # Garbage
  <2>1. TAKE i \in 1 .. k
  <2>2. offset - k + i \in 1 .. Len(file) /\ buffer[i] = file[offset - k + i]
    BY DEF Ahead
  <2>3. file[offset - k + i] \in FileByte
    BY <1>1, <2>2, ElementOfSeq
  <2> QED
    BY <2>2, <2>3, BytesAssumption DEF FileByte
<1>3. ASSUME NEW i \in DOMAIN buffer
      PROVE  buffer[i] # Garbage <=> i <= k
  <2>1. i \in 1 .. k \/ i \in k + 1 .. Len(buffer)
    BY <1>1
  <2>2. CASE i \in 1 .. k
    BY <1>1, <1>2, <2>2
  <2>3. CASE i \in k + 1 .. Len(buffer)
    <3>1. buffer[i] = Garbage
      BY <2>3 DEF Ahead
    <3>2. ~(i <= k)
      BY <1>1, <2>3
    <3> QED
      BY <3>1, <3>2
  <2> QED
    BY <2>1, <2>2, <2>3
<1>4. {i \in DOMAIN buffer : buffer[i] # Garbage} = 1 .. k
  <2>1. \A i : i \in 1 .. k <=> (i \in 1 .. Len(buffer) /\ i <= k)
    BY <1>1
  <2> QED
    BY <1>1, <1>3, <2>1
<1>5. Cardinality(1 .. k) = k
  <2>1. Cardinality(1 .. k) = IF 1 > k THEN 0 ELSE k - 1 + 1
    BY <1>1, FS_Interval
  <2> QED
    BY <1>1, <2>1
<1> QED
  BY <1>3, <1>4, <1>5 DEF Pos

\* The same of the next state.
LEMMA AheadPosNext ==
  (TypeOK /\ mode = "reading" => \A k \in 0 .. Len(buffer) : Ahead(k) => Pos = offset - k)'
<1>1. TypeOK /\ mode = "reading" => \A k \in 0 .. Len(buffer) : Ahead(k) => Pos = offset - k
  BY AheadPos
<1> QED
  BY <1>1, PTL

\* A result of a flush: its parts have their types, and one that is no error
\* left all the bytes in the file, unless writes are cut short.
LEMMA FlushFacts ==
  ASSUME TypeOK, mode # "closed", NEW r \in FlushImpl
  PROVE  /\ r.file \in Seq(FileByte) /\ r.offset \in Nat /\ r.error \in BOOLEAN
         /\ mode = "writing" => r.buffer \in Seq(Byte) /\ Len(r.buffer) <= capacity
         /\ mode = "reading" =>
              r.file = file /\ r.offset = offset /\ r.buffer = buffer /\ r.error = FALSE
         /\ mode = "writing" /\ ~r.error /\ "short" \notin Faults =>
              /\ r.file = Overwrite(file, WriteOffset, buffer)
              /\ r.offset = IF buffer = <<>> THEN offset ELSE WriteOffset + Len(buffer)
              /\ r.buffer = <<>>
<1>1. CASE mode = "reading"
  <2>1. r = Flush_Result(file, offset, buffer, FALSE)
    BY <1>1 DEF FlushImpl
  <2> QED
    BY <1>1, <2>1 DEF Flush_Result, TypeOK
<1>2. CASE mode = "writing"
  <2>1. /\ buffer \in Seq(Byte) /\ buffer \in Seq(FileByte) /\ Len(buffer) \in Nat
        /\ Len(buffer) <= capacity /\ file \in Seq(FileByte) /\ offset \in Nat
        /\ Zero \in FileByte /\ WriteOffset \in Nat
    BY <1>2, SeqLarger, LenProperties, WriteOffsetType DEF TypeOK, FileByte
  <2>2. <<>> \in Seq(Byte) /\ Len(<<>>) = 0 /\ 0 <= capacity
    BY CapacityType
  <2>3. ASSUME NEW bytes \in Seq(FileByte)
        PROVE  Overwrite(file, WriteOffset, bytes) \in Seq(FileByte)
               /\ WriteOffset + Len(bytes) \in Nat
    <3>1. Overwrite(file, WriteOffset, bytes) \in Seq(FileByte)
      BY <2>1, OverwriteType, Zenon
    <3>2. Len(bytes) \in Nat
      BY LenProperties
    <3> QED
      BY <2>1, <3>1, <3>2
  <2>4. CASE buffer = <<>> /\ r = Flush_Result(file, offset, buffer, FALSE)
    BY <1>2, <2>1, <2>2, <2>4 DEF Flush_Result, Overwrite
  <2>5. CASE buffer # <<>> /\ r = Flushed(buffer)
    <3>1. Overwrite(file, WriteOffset, buffer) \in Seq(FileByte)
          /\ WriteOffset + Len(buffer) \in Nat
      BY <2>1, <2>3
    <3>2. /\ r.file = Overwrite(file, WriteOffset, buffer)
          /\ r.offset = WriteOffset + Len(buffer) /\ r.buffer = <<>> /\ r.error = FALSE
      BY <2>5 DEF Flushed, Flush_Result
    <3> QED
      BY <1>2, <2>2, <2>5, <3>1, <3>2
  <2>6. CASE r = Flush_Result(file, offset, <<>>, TRUE)
    BY <1>2, <2>1, <2>2, <2>6 DEF Flush_Result
  <2>7. CASE r = Flush_Result(file, offset, buffer, TRUE)
    BY <1>2, <2>1, <2>2, <2>7 DEF Flush_Result
  <2>8. ASSUME "short" \in Faults, NEW k \in 1 .. Len(buffer) - 1,
               r = Flushed(SubSeq(buffer, 1, k))
        PROVE  /\ r.file \in Seq(FileByte) /\ r.offset \in Nat /\ r.error \in BOOLEAN
               /\ r.buffer \in Seq(Byte) /\ Len(r.buffer) <= capacity
    <3> DEFINE bytes == SubSeq(buffer, 1, k)
    <3>1. k \in 0 .. Len(buffer)
      BY <2>1
    <3>2. bytes \in Seq(FileByte)
      BY <2>1, <3>1, FirstFacts
    <3>3. r = Flushed(bytes)
      BY <2>8
    <3> HIDE DEF bytes
    <3>4. Overwrite(file, WriteOffset, bytes) \in Seq(FileByte)
          /\ WriteOffset + Len(bytes) \in Nat
      BY <2>3, <3>2
    <3>5. /\ r.file = Overwrite(file, WriteOffset, bytes)
          /\ r.offset = WriteOffset + Len(bytes) /\ r.buffer = <<>> /\ r.error = FALSE
      BY <3>3 DEF Flushed, Flush_Result
    <3> QED
      BY <2>2, <3>4, <3>5
  <2>9. r \in FlushResults
    BY <1>2 DEF FlushImpl
  <2>10. \/ buffer = <<>> /\ r = Flush_Result(file, offset, buffer, FALSE)
         \/ buffer # <<>> /\ r = Flushed(buffer)
         \/ r = Flush_Result(file, offset, <<>>, TRUE)
         \/ r = Flush_Result(file, offset, buffer, TRUE)
         \/ /\ "short" \in Faults
            /\ \E k \in 1 .. Len(buffer) - 1 : r = Flushed(SubSeq(buffer, 1, k))
    BY <2>9 DEF FlushResults, WriteResults
  <2>11. CASE "short" \in Faults /\ \E k \in 1 .. Len(buffer) - 1 : r = Flushed(SubSeq(buffer, 1, k))
    BY <1>2, <2>8, <2>11
  <2> QED
    BY <2>4, <2>5, <2>6, <2>7, <2>10, <2>11
<1> QED
  BY <1>1, <1>2 DEF TypeOK

\* The types of the parts, as the steps need them.
LEMMA StreamTypes ==
  ASSUME TypeOK
  PROVE  /\ file \in Seq(FileByte) /\ Len(file) \in Nat /\ DOMAIN file = 1 .. Len(file)
         /\ offset \in Nat /\ Zero \in FileByte
         /\ todo \in Seq(Byte) /\ wanted \in Nat /\ wanted <= MaxSlice
         /\ mode = "reading" =>
              /\ buffer \in Seq(FileByte \cup {Garbage}) /\ Len(buffer) \in Nat
              /\ DOMAIN buffer = 1 .. Len(buffer) /\ todo = <<>>
         /\ mode = "writing" =>
              /\ buffer \in Seq(Byte) /\ Len(buffer) \in Nat /\ wanted = 0
              /\ buffer \in Seq(FileByte)
         /\ mode = "closed" => buffer = <<>> /\ todo = <<>> /\ wanted = 0
<1>1. /\ file \in Seq(FileByte) /\ Len(file) \in Nat /\ DOMAIN file = 1 .. Len(file)
      /\ offset \in Nat /\ Zero \in FileByte /\ todo \in Seq(Byte)
  BY LenProperties DEF TypeOK, FileByte
<1>2. wanted \in Nat /\ wanted <= MaxSlice
  BY BoundsAssumption DEF TypeOK
<1>3. mode = "reading" => /\ buffer \in Seq(FileByte \cup {Garbage}) /\ Len(buffer) \in Nat
                          /\ DOMAIN buffer = 1 .. Len(buffer) /\ todo = <<>>
  BY LenProperties DEF TypeOK
<1>4. mode = "writing" => /\ buffer \in Seq(Byte) /\ Len(buffer) \in Nat /\ wanted = 0
  BY LenProperties DEF TypeOK
<1>5. mode = "writing" => buffer \in Seq(FileByte)
  BY <1>4, SeqLarger DEF FileByte
<1>6. mode = "closed" => buffer = <<>> /\ todo = <<>> /\ wanted = 0
  BY DEF TypeOK, Idle
<1> QED
  BY <1>1, <1>2, <1>3, <1>4, <1>5, <1>6

\* What a fill of the empty buffer reads: the bytes there are, k of them, behind
\* which nothing was read into the allocation.
LEMMA FillFacts ==
  ASSUME TypeOK
  PROVE  /\ ReadAhead \in Seq(FileByte \cup {Garbage}) /\ Len(ReadAhead) = capacity
         /\ \E k \in 0 .. capacity :
              /\ Cardinality({i \in 1 .. capacity : offset + i <= Len(file)}) = k
              /\ \A i \in 1 .. k : /\ offset + i \in 1 .. Len(file)
                                   /\ ReadAhead[i] = file[offset + i]
              /\ \A i \in k + 1 .. capacity : ReadAhead[i] = Garbage
              /\ k < capacity => Len(file) <= offset + k
<1>1. /\ file \in Seq(FileByte) /\ Len(file) \in Nat /\ offset \in Nat
      /\ capacity \in Nat
  BY StreamTypes, CapacityType
<1>2. ASSUME NEW i \in 1 .. capacity
      PROVE  (IF offset + i <= Len(file) THEN file[offset + i] ELSE Garbage)
               \in FileByte \cup {Garbage}
  <2>1. CASE offset + i <= Len(file)
    <3>1. offset + i \in 1 .. Len(file)
      BY <1>1, <2>1
    <3> QED
      BY <1>1, <2>1, <3>1, ElementOfSeq
  <2> QED
    BY <2>1
<1>3. ReadAhead \in [1 .. capacity -> FileByte \cup {Garbage}]
  BY <1>2 DEF ReadAhead
<1>4. ReadAhead \in Seq(FileByte \cup {Garbage}) /\ Len(ReadAhead) = capacity
  BY <1>1, <1>3, SeqDef, LenProperties
<1>5. \A i \in 1 .. capacity :
        ReadAhead[i] = IF offset + i <= Len(file) THEN file[offset + i] ELSE Garbage
  BY DEF ReadAhead
<1>6. PICK k \in 0 .. capacity :
        \A i \in 1 .. capacity : (offset + i <= Len(file) <=> i <= k)
  <2>1. CASE Len(file) <= offset
    <3>1. \A i \in 1 .. capacity : (offset + i <= Len(file) <=> i <= 0)
      BY <1>1, <2>1
    <3> QED
      BY <1>1, <3>1
  <2>2. CASE Len(file) > offset /\ Len(file) - offset <= capacity
    <3>1. Len(file) - offset \in 0 .. capacity
      BY <1>1, <2>2
    <3>2. \A i \in 1 .. capacity : (offset + i <= Len(file) <=> i <= Len(file) - offset)
      BY <1>1, <2>2
    <3> QED
      BY <3>1, <3>2
  <2>3. CASE Len(file) > offset /\ Len(file) - offset > capacity
    <3>1. \A i \in 1 .. capacity : (offset + i <= Len(file) <=> i <= capacity)
      BY <1>1, <2>3
    <3> QED
      BY <1>1, <3>1
  <2> QED
    BY <1>1, <2>1, <2>2, <2>3
<1>7. k \in Nat /\ k <= capacity
  BY <1>1
<1>8. {i \in 1 .. capacity : offset + i <= Len(file)} = 1 .. k
  <2>1. \A i : i \in 1 .. k <=> (i \in 1 .. capacity /\ i <= k)
    BY <1>1, <1>7
  <2> QED
    BY <1>6, <2>1
<1>9. Cardinality(1 .. k) = k
  <2>1. Cardinality(1 .. k) = IF 1 > k THEN 0 ELSE k - 1 + 1
    BY <1>7, FS_Interval
  <2> QED
    BY <1>7, <2>1
<1>10. \A i \in 1 .. k : /\ offset + i \in 1 .. Len(file)
                         /\ ReadAhead[i] = file[offset + i]
  <2>1. TAKE i \in 1 .. k
  <2>2. i \in 1 .. capacity /\ i <= k
    BY <1>1, <1>7
  <2>3. offset + i <= Len(file)
    BY <1>6, <2>2
  <2>4. offset + i \in 1 .. Len(file)
    BY <1>1, <2>2, <2>3
  <2> QED
    BY <1>5, <2>2, <2>3, <2>4
<1>11. \A i \in k + 1 .. capacity : ReadAhead[i] = Garbage
  <2>1. TAKE i \in k + 1 .. capacity
  <2>2. i \in 1 .. capacity /\ ~(i <= k)
    BY <1>1, <1>7
  <2> QED
    BY <1>5, <1>6, <2>2
<1>12. k < capacity => Len(file) <= offset + k
  <2>1. SUFFICES ASSUME k < capacity PROVE Len(file) <= offset + k
    OBVIOUS
  <2>2. k + 1 \in 1 .. capacity /\ ~(k + 1 <= k)
    BY <1>1, <1>7, <2>1
  <2>3. ~(offset + (k + 1) <= Len(file))
    BY <1>6, <2>2
  <2> QED
    BY <1>1, <1>7, <2>3
<1> QED
  BY <1>4, <1>8, <1>9, <1>10, <1>11, <1>12

\* The invariant holds of a stream that was never opened.
LEMMA StreamInit ==
  ASSUME Init
  PROVE  StreamInv
<1>1. PICK n \in 0 .. MaxPos : file \in [1 .. n -> Byte]
  BY DEF Init
<1>2. n \in Nat /\ file \in [1 .. n -> FileByte]
  BY <1>1, BoundsAssumption DEF FileByte
<1>3. file \in Seq(FileByte)
  BY <1>2, SeqDef
<1>4. <<>> \in Seq(Byte) /\ Len(<<>>) = 0 /\ 0 \in 0 .. MaxSlice /\ 0 <= 0 /\ 0 \in Nat
  BY BoundsAssumption
<1> QED
  BY <1>3, <1>4 DEF Init, StreamInv, TypeOK, Idle

\* A flush, while the buffer is being written or read, keeps the invariant.
LEMMA FlushKeeps ==
  ASSUME StreamInv, mode # "closed", NEW r \in FlushImpl,
         file' = r.file, offset' = r.offset, buffer' = r.buffer,
         failed' = (failed \/ r.error), todo' \in {todo, <<>>},
         UNCHANGED <<opened, wanted, out, fault>>
  PROVE  StreamInv'
<1>1. TypeOK
  BY DEF StreamInv
<1>2. /\ r.file \in Seq(FileByte) /\ r.offset \in Nat /\ r.error \in BOOLEAN
      /\ mode = "writing" => r.buffer \in Seq(Byte) /\ Len(r.buffer) <= capacity
      /\ mode = "reading" => r.file = file /\ r.offset = offset /\ r.buffer = buffer
  BY <1>1, FlushFacts
<1>3. /\ mode \in {"reading", "writing"} /\ mode' = mode
      /\ appending' = appending /\ capacity' = capacity
  BY <1>1 DEF TypeOK, opened
<1>4. failed' \in BOOLEAN
  BY <1>1, <1>2, Zenon DEF TypeOK
<1>5. <<>> \in Seq(Byte)
  OBVIOUS
<1>6. TypeOK'
  BY <1>1, <1>2, <1>3, <1>4, <1>5 DEF TypeOK
<1>7. CASE mode = "reading"
  <2>1. PICK k \in 0 .. Len(buffer) : Ahead(k)
    BY <1>7 DEF StreamInv
  <2>2. UNCHANGED <<file, offset, buffer>>
    BY <1>2, <1>7
  <2>3. k \in 0 .. Len(buffer') /\ Ahead(k)'
    BY <2>1, <2>2 DEF Ahead
  <2> QED
    BY <1>6, <2>3 DEF StreamInv
<1> QED
  BY <1>3, <1>6, <1>7 DEF StreamInv

LEMMA FillKeeps ==
  ASSUME StreamInv, FillBuffer
  PROVE  StreamInv' /\ mode = "reading" /\ Pos' = Pos
<1>1. TypeOK
  BY DEF StreamInv
<1>2. mode = "reading" /\ buffer = <<>> /\ offset \in Nat /\ Len(file) \in Nat
  BY <1>1, StreamTypes DEF FillBuffer, TypeOK
<1>3. ReadAhead \in Seq(FileByte \cup {Garbage}) /\ Len(ReadAhead) = capacity
  BY <1>1, FillFacts
<1>4. PICK k \in 0 .. capacity :
        /\ Cardinality({i \in 1 .. capacity : offset + i <= Len(file)}) = k
        /\ \A i \in 1 .. k : /\ offset + i \in 1 .. Len(file)
                             /\ ReadAhead[i] = file[offset + i]
        /\ \A i \in k + 1 .. capacity : ReadAhead[i] = Garbage
        /\ k < capacity => Len(file) <= offset + k
  BY <1>1, FillFacts
<1>5. /\ buffer' = ReadAhead /\ offset' = offset + k /\ file' = file
      /\ mode' = mode
      /\ UNCHANGED <<appending, capacity, todo, wanted, out, failed, fault>>
  BY <1>4 DEF FillBuffer, opened
<1>6. k \in Nat /\ capacity \in Nat
  BY <1>1, CapacityType
<1>7. TypeOK'
  <2>1. /\ buffer' \in Seq(FileByte \cup {Garbage}) /\ Len(buffer') <= capacity
        /\ offset' \in Nat
    BY <1>2, <1>3, <1>5, <1>6
  <2> QED
    BY <1>1, <1>2, <1>5, <2>1 DEF TypeOK
<1>8. Ahead(k)'
  <2>1. offset' - k = offset /\ k <= offset'
    BY <1>2, <1>5, <1>6
  <2> QED
    BY <1>3, <1>4, <1>5, <2>1 DEF Ahead
<1>9. k \in 0 .. Len(buffer')
  BY <1>3, <1>5
<1>10. Pos' = offset' - k
  BY <1>2, <1>5, <1>7, <1>8, <1>9, AheadPosNext
<1>11. Pos = offset
  <2>1. Len(buffer) = 0 /\ 0 \in 0 .. Len(buffer)
    BY <1>2
  <2>2. Ahead(0)
    BY <1>2, <2>1 DEF Ahead, StreamInv
  <2> QED
    BY <1>1, <1>2, <2>1, <2>2, AheadPos
<1>12. Pos' = Pos
  BY <1>2, <1>5, <1>6, <1>10, <1>11
<1> QED
  BY <1>2, <1>5, <1>7, <1>8, <1>9, <1>12 DEF StreamInv

\* A read takes the byte at the position, or one that was never read once the
\* position is at the end or behind it.
LEMMA ReadKeeps ==
  ASSUME StreamInv, ReadByte
  PROVE  /\ StreamInv' /\ mode = "reading"
         /\ \/ /\ Pos \in Nat /\ Pos + 1 <= Len(file) /\ out' = file[Pos + 1] /\ Pos' = Pos + 1
            \/ Pos >= Len(file) /\ Pos' = Pos
<1>1. TypeOK
  BY DEF StreamInv
<1>2. /\ mode = "reading" /\ buffer # <<>> /\ offset \in Nat /\ Len(file) \in Nat
      /\ wanted \in Nat /\ wanted > 0 /\ wanted <= MaxSlice
  BY <1>1, StreamTypes DEF ReadByte, TypeOK
<1>3. /\ buffer \in Seq(FileByte \cup {Garbage}) /\ Len(buffer) \in Nat
      /\ DOMAIN buffer = 1 .. Len(buffer)
  BY <1>1, <1>2, StreamTypes
<1>4. /\ out' = Head(buffer) /\ buffer' = Tail(buffer) /\ wanted' = wanted - 1
      /\ UNCHANGED <<mode, appending, capacity, file, offset, todo, failed, fault>>
  BY DEF ReadByte, opened
<1>5. /\ Tail(buffer) \in Seq(FileByte \cup {Garbage}) /\ Len(Tail(buffer)) = Len(buffer) - 1
      /\ \A i \in 1 .. Len(Tail(buffer)) : Tail(buffer)[i] = buffer[i + 1]
      /\ Head(buffer) = buffer[1] /\ Head(buffer) \in FileByte \cup {Garbage}
      /\ Len(buffer) > 0
  <2>1. /\ Tail(buffer) \in Seq(FileByte \cup {Garbage}) /\ Len(Tail(buffer)) = Len(buffer) - 1
        /\ \A i \in 1 .. Len(Tail(buffer)) : Tail(buffer)[i] = buffer[i + 1]
        /\ Head(buffer) \in FileByte \cup {Garbage}
    BY <1>2, <1>3, HeadTailProperties
  <2>2. Len(buffer) > 0
    BY <1>2, <1>3, EmptySeq
  <2> QED
    BY <2>1, <2>2
<1>6. TypeOK'
  <2>1. wanted' \in 0 .. MaxSlice
    BY <1>2, <1>4, BoundsAssumption
  <2>2. Len(buffer') <= capacity
    BY <1>1, <1>3, <1>4, <1>5, CapacityType DEF TypeOK
  <2>3. out' \in FileByte \cup {None, Garbage}
    BY <1>4, <1>5
  <2> QED
    BY <1>1, <1>2, <1>4, <1>5, <2>1, <2>2, <2>3 DEF TypeOK
<1>7. PICK k \in 0 .. Len(buffer) : Ahead(k)
  BY <1>2 DEF StreamInv
<1>8. Pos = offset - k
  BY <1>1, <1>2, <1>7, AheadPos
<1>9. k \in Nat /\ k <= offset /\ k <= Len(buffer)
  BY <1>3, <1>7 DEF Ahead
<1>10. CASE k > 0
  <2> DEFINE j == k - 1
  <2>1. j \in Nat /\ j + 1 = k
    BY <1>9, <1>10
  <2>2. j \in 0 .. Len(buffer') /\ j <= offset'
    BY <1>2, <1>3, <1>4, <1>5, <1>9, <2>1
  <2>3. \A i \in 1 .. j : /\ offset' - j + i \in 1 .. Len(file')
                          /\ buffer'[i] = file'[offset' - j + i]
    <3>1. TAKE i \in 1 .. j
    <3>2. /\ i + 1 \in 1 .. k /\ i \in 1 .. Len(buffer) - 1
          /\ offset - k + (i + 1) = offset - j + i
      BY <1>2, <1>3, <1>9, <2>1
    <3>3. offset - k + (i + 1) \in 1 .. Len(file) /\ buffer[i + 1] = file[offset - k + (i + 1)]
      BY <1>7, <3>2 DEF Ahead
    <3> QED
      BY <1>4, <1>5, <3>2, <3>3
  <2>4. \A i \in j + 1 .. Len(buffer') : buffer'[i] = Garbage
    <3>1. TAKE i \in j + 1 .. Len(buffer')
    <3>2. i + 1 \in k + 1 .. Len(buffer) /\ i \in 1 .. Len(buffer) - 1
      BY <1>3, <1>4, <1>5, <1>9, <2>1
    <3>3. buffer[i + 1] = Garbage
      BY <1>7, <3>2 DEF Ahead
    <3> QED
      BY <1>4, <1>5, <3>2, <3>3
  <2>5. j < Len(buffer') => Len(file') <= offset'
    BY <1>3, <1>4, <1>5, <1>7, <1>9, <2>1 DEF Ahead
  <2> HIDE DEF j
  <2>6. Ahead(j)'
    BY <2>2, <2>3, <2>4, <2>5 DEF Ahead
  <2>7. Pos' = offset' - j
    BY <1>2, <1>4, <1>6, <2>2, <2>6, AheadPosNext
  <2>8. offset - k + 1 \in 1 .. Len(file) /\ buffer[1] = file[offset - k + 1]
    <3>1. 1 \in 1 .. k
      BY <1>9, <1>10
    <3> QED
      BY <1>7, <3>1 DEF Ahead
  <2>9. Pos \in Nat /\ Pos + 1 <= Len(file) /\ out' = file[Pos + 1] /\ Pos' = Pos + 1
    BY <1>2, <1>4, <1>5, <1>8, <1>9, <2>1, <2>7, <2>8
  <2>10. StreamInv'
    BY <1>6, <2>2, <2>6 DEF StreamInv
  <2> QED
    BY <1>2, <2>9, <2>10
<1>11. CASE k = 0
  <2>1. Len(file) <= offset
    BY <1>5, <1>7, <1>11 DEF Ahead
  <2>2. \A i \in 1 .. Len(buffer') : buffer'[i] = Garbage
    <3>1. TAKE i \in 1 .. Len(buffer')
    <3>2. i + 1 \in k + 1 .. Len(buffer) /\ i \in 1 .. Len(buffer) - 1
      BY <1>3, <1>4, <1>5, <1>11
    <3>3. buffer[i + 1] = Garbage
      BY <1>7, <3>2 DEF Ahead
    <3> QED
      BY <1>4, <1>5, <3>2, <3>3
  <2>3. 0 \in 0 .. Len(buffer')
    BY <1>3, <1>4, <1>5
  <2>4. Ahead(0)'
    BY <1>2, <1>4, <2>1, <2>2 DEF Ahead
  <2>5. Pos' = offset' - 0
    BY <1>2, <1>4, <1>6, <2>3, <2>4, AheadPosNext
  <2>6. Pos >= Len(file) /\ Pos' = Pos
    BY <1>2, <1>4, <1>8, <1>11, <2>1, <2>5
  <2>7. StreamInv'
    BY <1>6, <2>3, <2>4 DEF StreamInv
  <2> QED
    BY <1>2, <2>6, <2>7
<1> QED
  BY <1>9, <1>10, <1>11

\* What a seek leaves: the result of a flush that failed, or the descriptor where the
\* client wants it, or where the flush left it, and the buffer empty.
LEMMA SeekFacts ==
  ASSUME StreamInv, NEW whence \in {"start", "current", "end"}, NEW n \in Distance,
         Seek(whence, n)
  PROVE  /\ mode \in {"reading", "writing"} /\ UNCHANGED <<opened, todo, wanted, out, fault>>
         /\ \E r \in FlushImpl :
              /\ file' = r.file
              /\ \/ /\ r.error /\ offset' = r.offset /\ buffer' = r.buffer
                    /\ failed' = (failed \/ r.error)
                 \/ /\ ~r.error /\ buffer' = <<>> /\ failed' = (failed \/ FALSE)
                    /\ offset' = SeekTarget(whence, n, r.offset, r.file)
                    /\ offset' \in 0 .. MaxPos
                 \/ /\ ~r.error /\ buffer' = <<>> /\ failed' = (failed \/ TRUE)
                    /\ offset' = r.offset
<1>1. mode \in {"reading", "writing"} /\ UNCHANGED <<opened, todo, wanted, out, fault>>
  BY DEF Seek, StreamInv, TypeOK
<1>2. PICK r \in FlushImpl : \E q \in SeekResults(whence, n, r) :
        /\ file' = q.file /\ offset' = q.offset /\ buffer' = q.buffer
        /\ failed' = (failed \/ q.error)
  BY DEF Seek
<1>3. PICK q \in SeekResults(whence, n, r) :
        /\ file' = q.file /\ offset' = q.offset /\ buffer' = q.buffer
        /\ failed' = (failed \/ q.error)
  BY <1>2
<1>4. CASE r.error
  <2>1. q = r
    BY <1>3, <1>4 DEF SeekResults
  <2> QED
    BY <1>1, <1>3, <1>4, <2>1
<1>5. CASE ~r.error
  <2> DEFINE target == SeekTarget(whence, n, r.offset, r.file)
  <2>1. \/ target \in 0 .. MaxPos /\ q = Flush_Result(r.file, target, <<>>, FALSE)
        \/ q = Flush_Result(r.file, r.offset, <<>>, TRUE)
    BY <1>3, <1>5 DEF SeekResults
  <2> HIDE DEF target
  <2>2. CASE target \in 0 .. MaxPos /\ q = Flush_Result(r.file, target, <<>>, FALSE)
    <3>1. q.file = r.file /\ q.offset = target /\ q.buffer = <<>> /\ q.error = FALSE
      BY <2>2 DEF Flush_Result
    <3>2. /\ file' = r.file /\ offset' = target /\ buffer' = <<>>
          /\ failed' = (failed \/ FALSE)
      BY <1>3, <3>1
    <3> QED
      BY <1>1, <1>5, <2>2, <3>2 DEF target
  <2>3. CASE q = Flush_Result(r.file, r.offset, <<>>, TRUE)
    <3>1. q.file = r.file /\ q.offset = r.offset /\ q.buffer = <<>> /\ q.error = TRUE
      BY <2>3 DEF Flush_Result
    <3>2. /\ file' = r.file /\ offset' = r.offset /\ buffer' = <<>>
          /\ failed' = (failed \/ TRUE)
      BY <1>3, <3>1
    <3> QED
      BY <1>1, <1>5, <3>2
  <2> QED
    BY <2>1, <2>2, <2>3
<1> QED
  BY <1>4, <1>5

LEMMA SeekKeeps ==
  ASSUME StreamInv, NEW whence \in {"start", "current", "end"}, NEW n \in Distance,
         Seek(whence, n)
  PROVE  StreamInv'
<1>1. TypeOK
  BY DEF StreamInv
<1>2. mode \in {"reading", "writing"} /\ UNCHANGED <<opened, todo, wanted, out, fault>>
  BY SeekFacts
<1>3. PICK r \in FlushImpl :
        /\ file' = r.file
        /\ \/ /\ r.error /\ offset' = r.offset /\ buffer' = r.buffer
              /\ failed' = (failed \/ r.error)
           \/ /\ ~r.error /\ buffer' = <<>> /\ failed' = (failed \/ FALSE)
              /\ offset' = SeekTarget(whence, n, r.offset, r.file)
              /\ offset' \in 0 .. MaxPos
           \/ /\ ~r.error /\ buffer' = <<>> /\ failed' = (failed \/ TRUE)
              /\ offset' = r.offset
  BY SeekFacts
<1>4. r.file \in Seq(FileByte) /\ r.offset \in Nat
  BY <1>1, <1>2, FlushFacts
<1>5. CASE r.error
  <2>1. /\ file' = r.file /\ offset' = r.offset /\ buffer' = r.buffer
        /\ failed' = (failed \/ r.error) /\ todo' \in {todo, <<>>}
        /\ UNCHANGED <<opened, wanted, out, fault>>
    BY <1>2, <1>3, <1>5
  <2> QED
    BY <1>2, <2>1, FlushKeeps
<1>6. CASE ~r.error
  <2>1. buffer' = <<>> /\ file' = r.file /\ offset' \in Nat
    BY <1>3, <1>4, <1>6, BoundsAssumption
  <2>2. failed' \in BOOLEAN
    BY <1>1, <1>3, <1>6, Zenon DEF TypeOK
  <2>3. /\ <<>> \in Seq(Byte) /\ <<>> \in Seq(FileByte \cup {Garbage})
        /\ Len(<<>>) = 0 /\ 0 <= capacity /\ 0 \in 0 .. 0
    BY <1>1, CapacityType
  <2>4. TypeOK'
    BY <1>1, <1>2, <1>4, <2>1, <2>2, <2>3 DEF TypeOK, opened
  <2>5. Ahead(0)'
    BY <2>1, <2>3 DEF Ahead
  <2>6. 0 \in 0 .. Len(buffer')
    BY <2>1
  <2> QED
    BY <2>4, <2>5, <2>6 DEF StreamInv
<1> QED
  BY <1>5, <1>6

LEMMA StreamStep ==
  ASSUME StreamInv, [Next]_vars
  PROVE  StreamInv'
<1>1. TypeOK
  BY DEF StreamInv
<1>2. /\ <<>> \in Seq(Byte) /\ <<>> \in Seq(FileByte \cup {Garbage}) /\ <<>> \in Seq(FileByte)
      /\ Len(<<>>) = 0 /\ 0 <= 0 /\ 0 \in Nat /\ 0 \in 0 .. MaxSlice
  BY BoundsAssumption
<1>3. ASSUME NEW m \in {"reading", "writing"}, NEW truncate, NEW append \in BOOLEAN,
             NEW c \in BufferSizes, Open(m, truncate, append, c)
      PROVE  StreamInv'
  <2>0. 0 <= c /\ file' \in {file, <<>>}
    BY <1>3, SizesAssumption DEF Open, Truncated
  <2>1. TypeOK'
    BY <1>1, <1>2, <1>3, <2>0 DEF TypeOK, Idle, Open
  <2>2. Ahead(0)' /\ 0 \in 0 .. Len(buffer')
    BY <1>2, <1>3 DEF Open, Ahead
  <2> QED
    BY <2>1, <2>2 DEF StreamInv
<1>4. ASSUME NEW truncate \in BOOLEAN, OpenFails(truncate)
      PROVE  StreamInv'
  BY <1>1, <1>2, <1>4 DEF TypeOK, Idle, OpenFails, Truncated, StreamInv, opened
<1>5. CASE Close
  <2>1. PICK r \in FlushImpl : file' = r.file /\ failed' = (failed \/ r.error)
    BY <1>5 DEF Close
  <2>2. mode # "closed"
    BY <1>5 DEF Close
  <2>3. r.file \in Seq(FileByte) /\ r.error \in BOOLEAN
    BY <1>1, <2>2, FlushFacts
  <2>4. failed' \in BOOLEAN
    BY <1>1, <2>1, <2>3, Zenon DEF TypeOK
  <2>5. /\ mode' = "closed" /\ buffer' = <<>> /\ offset' = 0 /\ todo' = <<>> /\ wanted' = 0
        /\ appending' = FALSE /\ capacity' = 0 /\ UNCHANGED <<out, fault>>
    BY <1>5 DEF Close, Idle
  <2>6. TypeOK'
    BY <1>1, <1>2, <2>1, <2>3, <2>4, <2>5 DEF TypeOK, Idle
  <2> QED
    BY <2>5, <2>6 DEF StreamInv
<1>6. ASSUME NEW n \in 1 .. MaxSlice, NEW s \in [1 .. n -> Byte], Write(s)
      PROVE  StreamInv'
  <2>1. s \in Seq(Byte)
    <3>1. n \in Nat
      BY BoundsAssumption
    <3> QED
      BY <3>1, SeqDef
  <2>2. /\ mode = "writing" /\ todo' = s
        /\ UNCHANGED <<opened, file, offset, buffer, wanted, out, failed, fault>>
    BY <1>6 DEF Write
  <2> QED
    BY <1>1, <2>1, <2>2 DEF TypeOK, StreamInv, opened
<1>7. CASE WriteByte
  <2>1. mode = "writing"
    BY <1>1, <1>7, StreamTypes DEF WriteByte, TypeOK
  <2>2. /\ todo # <<>> /\ Len(buffer) < capacity
        /\ buffer' = Append(buffer, Head(todo)) /\ todo' = Tail(todo)
        /\ UNCHANGED <<mode, appending, capacity, file, offset, wanted, out, failed, fault>>
    BY <1>7 DEF WriteByte, opened
  <2>3. Head(todo) \in Byte /\ Tail(todo) \in Seq(Byte)
    BY <1>1, <2>2, StreamTypes, HeadTailProperties
  <2>4. /\ buffer' \in Seq(Byte) /\ Len(buffer') = Len(buffer) + 1 /\ Len(buffer) \in Nat
    BY <1>1, <2>1, <2>2, <2>3, StreamTypes, AppendProperties
  <2>5. Len(buffer') <= capacity
    BY <1>1, <2>2, <2>4, CapacityType
  <2> QED
    BY <1>1, <2>1, <2>2, <2>3, <2>4, <2>5 DEF TypeOK, StreamInv
<1>8. CASE FlushFull
  <2>1. mode = "writing"
    BY <1>1, <1>8, StreamTypes DEF FlushFull, TypeOK
  <2>2. PICK r \in FlushResults :
          /\ file' = r.file /\ offset' = r.offset /\ buffer' = r.buffer
          /\ failed' = (failed \/ r.error)
          /\ todo' = IF r.error THEN <<>> ELSE todo
    BY <1>8 DEF FlushFull
  <2>3. r \in FlushImpl
    BY <2>1 DEF FlushImpl
  <2>4. todo' \in {todo, <<>>} /\ UNCHANGED <<opened, wanted, out, fault>>
    BY <1>8, <2>2 DEF FlushFull
  <2> QED
    BY <2>1, <2>2, <2>3, <2>4, FlushKeeps
<1>9. CASE Flush
  <2>1. PICK r \in FlushImpl :
          /\ file' = r.file /\ offset' = r.offset /\ buffer' = r.buffer
          /\ failed' = (failed \/ r.error)
    BY <1>9 DEF Flush
  <2>2. mode = "writing" /\ todo' \in {todo, <<>>} /\ UNCHANGED <<opened, wanted, out, fault>>
    BY <1>9 DEF Flush
  <2> QED
    BY <2>1, <2>2, FlushKeeps
<1>10. ASSUME NEW n \in 1 .. MaxSlice, Read(n)
       PROVE  StreamInv'
  <2>1. /\ mode = "reading"
        /\ UNCHANGED <<mode, appending, capacity, file, offset, buffer, todo, out, failed, fault>>
    BY <1>10 DEF Read, opened
  <2>2. wanted' \in 0 .. MaxSlice
    BY <1>10, BoundsAssumption DEF Read
  <2>3. TypeOK'
    BY <1>1, <2>1, <2>2 DEF TypeOK
  <2>4. PICK k \in 0 .. Len(buffer) : Ahead(k)
    BY <2>1 DEF StreamInv
  <2>5. k \in 0 .. Len(buffer') /\ Ahead(k)'
    BY <2>1, <2>4 DEF Ahead
  <2> QED
    BY <2>3, <2>5 DEF StreamInv
<1>11. CASE FillBuffer
  BY <1>11, FillKeeps
<1>12. CASE FillError
  <2>1. /\ mode = "reading"
        /\ UNCHANGED <<mode, appending, capacity, file, offset, buffer, todo, out, fault>>
    BY <1>1, <1>12, StreamTypes DEF FillError, TypeOK, opened
  <2>2. TypeOK'
    BY <1>1, <1>2, <1>12, <2>1 DEF TypeOK, FillError
  <2>3. PICK k \in 0 .. Len(buffer) : Ahead(k)
    BY <2>1 DEF StreamInv
  <2>4. k \in 0 .. Len(buffer') /\ Ahead(k)'
    BY <2>1, <2>3 DEF Ahead
  <2> QED
    BY <2>2, <2>4 DEF StreamInv
<1>13. CASE ReadByte
  BY <1>13, ReadKeeps
<1>14. ASSUME NEW whence \in {"start", "current", "end"}, NEW n \in Distance,
              Seek(whence, n)
       PROVE  StreamInv'
  BY <1>14, SeekKeeps
<1>15. CASE UNCHANGED vars
  BY <1>15 DEF vars, StreamInv, TypeOK, Ahead, Idle, opened
<1>16. CASE PushFaults
  <2>1. /\ mode = "writing" /\ fault' = TRUE
        /\ UNCHANGED <<mode, appending, capacity, file, offset, buffer, todo, wanted, out, failed>>
    BY <1>1, <1>16, StreamTypes DEF PushFaults, TypeOK, opened
  <2> QED
    BY <1>1, <2>1 DEF TypeOK, StreamInv
<1>17. FillFails \/ FillRefused => FillError
  BY DEF FillFails, FillRefused
<1> QED
  BY <1>3, <1>4, <1>5, <1>6, <1>7, <1>8, <1>9, <1>10, <1>11, <1>12, <1>13, <1>14, <1>15,
     <1>16, <1>17 DEF Next

\* The invariant: the types, and what of a buffer that is read from is the file's.
THEOREM StreamInvariant == Spec => []StreamInv
<1>1. Init => StreamInv
  BY StreamInit
<1>2. StreamInv /\ [Next]_vars => StreamInv'
  BY StreamStep
<1> QED
  BY <1>1, <1>2, PTL DEF Spec

\* What a client reads next is what follows what it read last, for every capacity
\* of the buffer and also when files grow, end or seeks leave them
\* (cu_FStream_fill_buffer, cu_FStream_read).
THEOREM StreamReadsAhead == Spec => []ReadsAhead
<1>1. StreamInv => ReadsAhead
  <2>1. SUFFICES ASSUME StreamInv PROVE ReadsAhead
    OBVIOUS
  <2>2. TypeOK
    BY <2>1 DEF StreamInv
  <2>3. ASSUME mode = "reading", NEW i \in DOMAIN buffer
        PROVE  IF buffer[i] = Garbage THEN Len(file) <= offset
               ELSE Pos + i \in DOMAIN file /\ buffer[i] = file[Pos + i]
    <3>1. PICK k \in 0 .. Len(buffer) : Ahead(k)
      BY <2>1, <2>3 DEF StreamInv
    <3>2. /\ Pos = offset - k
          /\ buffer[i] # Garbage <=> i <= k
      BY <2>2, <2>3, <3>1, AheadPos
    <3>3. /\ DOMAIN buffer = 1 .. Len(buffer) /\ DOMAIN file = 1 .. Len(file)
          /\ Len(buffer) \in Nat /\ k \in Nat /\ i \in Nat /\ 1 <= i /\ i <= Len(buffer)
      BY <2>2, <2>3, StreamTypes
    <3>4. CASE buffer[i] = Garbage
      <4>1. k < Len(buffer)
        BY <3>2, <3>3, <3>4
      <4> QED
        BY <3>1, <3>4, <4>1 DEF Ahead
    <3>5. CASE buffer[i] # Garbage
      <4>1. i \in 1 .. k
        BY <3>2, <3>3, <3>5
      <4>2. offset - k + i \in 1 .. Len(file) /\ buffer[i] = file[offset - k + i]
        BY <3>1, <4>1 DEF Ahead
      <4> QED
        BY <3>2, <3>3, <3>5, <4>2
    <3> QED
      BY <3>4, <3>5
  <2> QED
    BY <2>2, <2>3 DEF ReadsAhead
<1> QED
  BY <1>1, StreamInvariant, PTL

-----------------------------------------------------------------------------
(* The buffered stream is an unbuffered one, unless writes are cut short   *)

\* The position and contents while writing and while closed.
LEMMA OtherPos ==
  /\ mode = "writing" => /\ Content = Overwrite(file, WriteOffset, buffer)
                         /\ buffer # <<>> => Pos = WriteOffset + Len(buffer)
                         /\ buffer = <<>> => Pos = offset /\ Content = file
  /\ mode = "closed" => Pos = 0 /\ Content = file
  /\ mode = "reading" => Content = file
BY DEF Pos, Content, Overwrite

LEMMA OtherPosNext ==
  /\ mode' = "writing" => /\ Content' = Overwrite(file', WriteOffset', buffer')
                          /\ buffer' # <<>> => Pos' = WriteOffset' + Len(buffer')
                          /\ buffer' = <<>> => Pos' = offset' /\ Content' = file'
  /\ mode' = "closed" => Pos' = 0 /\ Content' = file'
  /\ mode' = "reading" => Content' = file'
<1>1. (/\ mode = "writing" => /\ Content = Overwrite(file, WriteOffset, buffer)
                              /\ buffer # <<>> => Pos = WriteOffset + Len(buffer)
                              /\ buffer = <<>> => Pos = offset /\ Content = file
       /\ mode = "closed" => Pos = 0 /\ Content = file
       /\ mode = "reading" => Content = file)'
  BY OtherPos, PTL
<1> QED
  BY <1>1

LEMMA EmptyPos ==
  ASSUME TypeOK, mode = "reading", buffer = <<>>
  PROVE  Pos = offset
<1>1. offset \in Nat /\ Len(buffer) = 0 /\ 0 \in 0 .. Len(buffer)
  BY DEF TypeOK
<1>2. {i \in DOMAIN buffer : buffer[i] # Garbage} = {}
  OBVIOUS
<1>3. Cardinality({}) = 0
  BY FS_EmptySet
<1> QED
  BY <1>1, <1>2, <1>3 DEF Pos

LEMMA EmptyPosNext == TypeOK' /\ mode' = "reading" /\ buffer' = <<>> => Pos' = offset'
<1>1. TypeOK /\ mode = "reading" /\ buffer = <<>> => Pos = offset
  BY EmptyPos
<1>2. (TypeOK /\ mode = "reading" /\ buffer = <<>> => Pos = offset)'
  BY <1>1, PTL
<1> QED
  BY <1>2

LEMMA SamePos ==
  ASSUME UNCHANGED <<mode, appending, file, offset, buffer>>
  PROVE  Pos' = Pos /\ Content' = Content
BY DEF Pos, Content, WriteOffset

\* A flush without an error leaves the contents and the position alone.
LEMMA FlushMoves ==
  ASSUME "short" \notin Faults, StreamInv, mode # "closed", NEW r \in FlushImpl, ~r.error,
         UNCHANGED <<mode, appending>>,
         file' = r.file, offset' = r.offset, buffer' = r.buffer
  PROVE  Pos' = Pos /\ Content' = Content
<1>1. TypeOK /\ mode \in {"reading", "writing"}
  BY DEF StreamInv, TypeOK
<1>2. CASE mode = "reading"
  <2>1. UNCHANGED <<mode, appending, file, offset, buffer>>
    BY <1>1, <1>2, FlushFacts
  <2> QED
    BY <2>1, SamePos
<1>3. CASE mode = "writing"
  <2>1. /\ file' = Overwrite(file, WriteOffset, buffer)
        /\ offset' = IF buffer = <<>> THEN offset ELSE WriteOffset + Len(buffer)
        /\ buffer' = <<>>
    BY <1>1, <1>3, FlushFacts
  <2>2. Pos' = offset' /\ Content' = file'
    BY <1>3, <2>1, OtherPosNext
  <2> QED
    BY <1>3, <2>1, <2>2, OtherPos
<1> QED
  BY <1>1, <1>2, <1>3

\* What a seek without an error does.
LEMMA SeekMoves ==
  ASSUME "short" \notin Faults, StreamInv, NEW whence \in {"start", "current", "end"},
         NEW n \in Distance, Seek(whence, n), ~failed'
  PROVE  /\ Content' = Content /\ Pos' \in Nat /\ UNCHANGED <<mode, appending, out, failed>>
         /\ mode = "writing" /\ whence = "current" => Pos' = Pos + n
<1>1. /\ TypeOK /\ mode \in {"reading", "writing"} /\ UNCHANGED <<mode, appending, out>>
  BY SeekFacts DEF StreamInv, opened
<1>2. PICK r \in FlushImpl :
        /\ file' = r.file
        /\ \/ /\ r.error /\ offset' = r.offset /\ buffer' = r.buffer
              /\ failed' = (failed \/ r.error)
           \/ /\ ~r.error /\ buffer' = <<>> /\ failed' = (failed \/ FALSE)
              /\ offset' = SeekTarget(whence, n, r.offset, r.file)
              /\ offset' \in 0 .. MaxPos
           \/ /\ ~r.error /\ buffer' = <<>> /\ failed' = (failed \/ TRUE)
              /\ offset' = r.offset
  BY SeekFacts
<1>3. /\ ~r.error /\ buffer' = <<>> /\ failed' = (failed \/ FALSE)
      /\ offset' = SeekTarget(whence, n, r.offset, r.file) /\ offset' \in 0 .. MaxPos
  BY <1>2, Zenon
<1>4. failed' = failed
  BY <1>1, <1>3, Zenon DEF TypeOK
<1>5. offset' \in Nat
  BY <1>3, BoundsAssumption
<1>6. TypeOK'
  BY SeekKeeps DEF StreamInv
<1>7. Pos' = offset'
  BY <1>1, <1>3, <1>6, EmptyPosNext, OtherPosNext
<1>8. CASE mode = "reading"
  <2>1. file' = file
    BY <1>1, <1>2, <1>8, FlushFacts
  <2> QED
    BY <1>1, <1>4, <1>5, <1>7, <1>8, <2>1, OtherPos, OtherPosNext
<1>9. CASE mode = "writing"
  <2>1. /\ r.file = Overwrite(file, WriteOffset, buffer)
        /\ r.offset = IF buffer = <<>> THEN offset ELSE WriteOffset + Len(buffer)
    BY <1>1, <1>3, <1>9, FlushFacts
  <2>2. Content' = file' /\ Content = Overwrite(file, WriteOffset, buffer)
    BY <1>1, <1>3, <1>9, OtherPos, OtherPosNext
  <2>3. Pos = r.offset
    BY <1>9, <2>1, OtherPos
  <2>4. whence = "current" => Pos' = Pos + n
    BY <1>3, <1>7, <2>3 DEF SeekTarget
  <2> QED
    BY <1>1, <1>2, <1>4, <1>5, <1>7, <2>1, <2>2, <2>4
<1> QED
  BY <1>1, <1>8, <1>9

\* A seek relative to the position, forwards or back, counts the bytes still in the
\* write buffer (cu_FStream_seek flushes before it moves the descriptor), unless the
\* system cuts writes short without cu_File_write noticing.
THEOREM SeeksCountBuffer ==
  ASSUME "short" \notin Faults
  PROVE  Spec => SeekCountsBuffer
<1>1. StreamInv /\ [Next]_vars =>
        [\A n \in Distance :
           mode = "writing" /\ Seek("current", n) /\ ~failed' => Pos' = Pos + n]_vars
  BY SeekMoves
<1> QED
  BY <1>1, StreamInvariant, PTL DEF Spec, SeekCountsBuffer

LEMMA SameOverwrite ==
  ASSUME NEW f, NEW p, NEW w
  PROVE  Unbuffered!Overwrite(f, p, w) = Overwrite(f, p, w)
BY DEF Unbuffered!Overwrite, Overwrite, Unbuffered!Larger, Larger

\* A byte that goes into the buffer is put at the position.
LEMMA WritePuts ==
  ASSUME StreamInv, WriteByte
  PROVE  Unbuffered!PutByte
<1>1. TypeOK
  BY DEF StreamInv
<1>2. mode = "writing"
  BY <1>1, StreamTypes DEF WriteByte, TypeOK
<1>3. /\ todo # <<>> /\ buffer' = Append(buffer, Head(todo))
      /\ UNCHANGED <<mode, appending, file, offset, out, failed>>
  BY DEF WriteByte, opened
<1>4. /\ Head(todo) \in Byte /\ Head(todo) \in FileByte
      /\ buffer \in Seq(FileByte) /\ Len(buffer) \in Nat /\ file \in Seq(FileByte)
      /\ WriteOffset \in Nat /\ Zero \in FileByte /\ Len(file) \in Nat
  <2>1. todo \in Seq(Byte)
    BY <1>1, StreamTypes
  <2>2. Head(todo) \in Byte
    BY <1>3, <2>1, HeadTailProperties
  <2> QED
    BY <1>1, <1>2, <2>2, StreamTypes, WriteOffsetType DEF FileByte
<1> DEFINE e == Head(todo)
           place == WriteOffset + Len(buffer)
<1>5. buffer' = Append(buffer, e)
  BY <1>3
<1> HIDE DEF e
<1>6. One(e) \in [1 .. 1 -> Byte]
  BY <1>4 DEF e, One
<1>7. Overwrite(file, WriteOffset, Append(buffer, e))
        = Overwrite(Overwrite(file, WriteOffset, buffer), place, One(e))
  <2>1. e \in FileByte
    BY <1>4 DEF e
  <2> QED
    BY <1>4, <2>1, OverwriteAppend
<1>8. Append(buffer, e) # <<>> /\ Len(Append(buffer, e)) = Len(buffer) + 1
  <2>1. e \in FileByte
    BY <1>4 DEF e
  <2> QED
    BY <1>4, <2>1, AppendProperties
<1>9. WriteOffset' = WriteOffset
  BY <1>3 DEF WriteOffset
<1>10. /\ Content = Overwrite(file, WriteOffset, buffer)
       /\ Content' = Overwrite(file, WriteOffset, Append(buffer, e))
       /\ Pos' = WriteOffset + Len(Append(buffer, e))
  <2>1. mode' = "writing" /\ file' = file
    BY <1>2, <1>3
  <2> QED
    BY <1>2, <1>5, <1>8, <1>9, <2>1, OtherPos, OtherPosNext
<1>11. (IF appending THEN Len(Content) ELSE Pos) = place
  <2>1. CASE buffer = <<>>
    <3>1. Content = file /\ Pos = offset /\ Len(buffer) = 0
      BY <1>2, <2>1, OtherPos
    <3>2. offset \in Nat
      BY <1>1, StreamTypes
    <3> QED
      BY <1>4, <3>1, <3>2 DEF WriteOffset
  <2>2. CASE buffer # <<>>
    <3>1. Pos = place
      BY <1>2, <2>2, OtherPos
    <3>2. ASSUME appending
          PROVE  Len(Content) = place
      <4>1. Len(Overwrite(file, WriteOffset, buffer)) = Larger(Len(file), WriteOffset + Len(buffer))
        BY <1>4, <2>2, OverwriteFacts
      <4>2. WriteOffset = Len(file)
        BY <3>2 DEF WriteOffset
      <4> QED
        BY <1>4, <1>10, <4>1, <4>2 DEF Larger
    <3> QED
      BY <3>1, <3>2
  <2> QED
    BY <2>1, <2>2
<1>12. Pos' = place + 1
  BY <1>4, <1>8, <1>10
<1>13. Content' = Unbuffered!Overwrite(Content, place, One(e))
  BY <1>7, <1>10, SameOverwrite
<1> HIDE DEF place
<1>14. Unbuffered!PutPos = place
  BY <1>11 DEF Unbuffered!PutPos
<1>15. \E s \in [1 .. 1 -> Byte] : Content' = Unbuffered!Overwrite(Content, place, s)
  BY <1>6, <1>13
<1> QED
  BY <1>3, <1>12, <1>14, <1>15 DEF Unbuffered!PutByte, Unbuffered!Put

\* An operation that returned an error promises nothing.
LEMMA StreamFailing ==
  ASSUME TypeOK, NEW x \in BOOLEAN, failed' = (failed \/ x), x
  PROVE  Unbuffered!Next
<1>1. failed' = TRUE
  BY Zenon
<1> QED
  BY <1>1 DEF Unbuffered!Next, Unbuffered!Fails

LEMMA NotFailing ==
  ASSUME TypeOK, NEW x \in BOOLEAN, failed' = (failed \/ x), ~x
  PROVE  failed' = failed
BY Zenon DEF TypeOK

\* Each step is a step of the stream without a buffer, or one it does not see.
LEMMA StreamRefines ==
  ASSUME "short" \notin Faults, StreamInv, [Next]_vars
  PROVE  [Unbuffered!Next]_(Unbuffered!vars)
<1>1. TypeOK /\ mode \in {"closed", "reading", "writing"}
  BY DEF StreamInv, TypeOK
<1>2. ASSUME NEW m \in {"reading", "writing"}, NEW truncate \in BOOLEAN,
             NEW append \in BOOLEAN, NEW c \in BufferSizes, Open(m, truncate, append, c)
      PROVE  Unbuffered!Open
  <2>1. /\ mode = "closed" /\ mode' = m /\ file' \in {file, <<>>} /\ offset' = 0
        /\ buffer' = <<>> /\ out' = None /\ failed' = FALSE /\ appending' \in BOOLEAN
    BY <1>2 DEF Open, Truncated
  <2>2. TypeOK'
    BY StreamStep DEF StreamInv
  <2>3. Pos' = 0 /\ Content' = file' /\ Content = file
    BY <2>1, <2>2, EmptyPosNext, OtherPos, OtherPosNext
  <2> QED
    BY <2>1, <2>3 DEF Unbuffered!Open
<1>3. ASSUME NEW truncate \in BOOLEAN, OpenFails(truncate)
      PROVE  Unbuffered!OpenFails
  <2>1. /\ mode = "closed" /\ mode' = "closed" /\ file' \in {file, <<>>}
        /\ UNCHANGED <<appending, out, failed>>
    BY <1>3 DEF OpenFails, Truncated, opened
  <2> QED
    BY <2>1, OtherPos, OtherPosNext DEF Unbuffered!OpenFails
<1>4. CASE Close
  <2>1. PICK r \in FlushImpl : file' = r.file /\ failed' = (failed \/ r.error)
    BY <1>4 DEF Close
  <2>2. /\ mode # "closed" /\ mode' = "closed" /\ appending' = FALSE /\ UNCHANGED out
        /\ mode = "writing" \/ mode = "reading"
    BY <1>1, <1>4 DEF Close
  <2>3. r.error \in BOOLEAN
    BY <1>1, <2>2, FlushFacts
  <2>4. CASE r.error
    BY <1>1, <2>1, <2>3, <2>4, StreamFailing
  <2>5. CASE ~r.error
    <3>1. failed' = failed
      BY <1>1, <2>1, <2>3, <2>5, NotFailing
    <3>2. r.file = Content
      BY <1>1, <2>2, <2>5, FlushFacts, OtherPos
    <3>3. Pos' = 0 /\ Content' = Content
      BY <2>1, <2>2, <3>2, OtherPosNext
    <3> QED
      BY <2>2, <3>1, <3>3 DEF Unbuffered!Next, Unbuffered!Close
  <2> QED
    BY <2>4, <2>5
<1>5. ASSUME NEW n \in 1 .. MaxSlice, NEW s \in [1 .. n -> Byte], Write(s)
      PROVE  UNCHANGED Unbuffered!vars
  BY <1>5, SamePos DEF Write, Unbuffered!vars, opened
<1>6. CASE WriteByte
  BY <1>6, WritePuts DEF Unbuffered!Next
<1>7. ASSUME NEW r \in FlushImpl, mode # "closed",
             file' = r.file, offset' = r.offset, buffer' = r.buffer,
             failed' = (failed \/ r.error), UNCHANGED <<mode, appending, wanted, out>>
      PROVE  [Unbuffered!Next]_(Unbuffered!vars)
  <2>1. r.error \in BOOLEAN
    BY <1>1, <1>7, FlushFacts
  <2>2. CASE r.error
    BY <1>1, <1>7, <2>1, <2>2, StreamFailing
  <2>3. CASE ~r.error
    <3>1. failed' = failed
      BY <1>1, <1>7, <2>1, <2>3, NotFailing
    <3>2. Pos' = Pos /\ Content' = Content
      BY <1>7, <2>3, FlushMoves
    <3> QED
      BY <1>7, <3>1, <3>2 DEF Unbuffered!vars
  <2> QED
    BY <2>2, <2>3
<1>8. CASE FlushFull
  <2>1. mode = "writing"
    BY <1>1, <1>8, StreamTypes DEF FlushFull, TypeOK
  <2>2. PICK r \in FlushResults :
          /\ file' = r.file /\ offset' = r.offset /\ buffer' = r.buffer
          /\ failed' = (failed \/ r.error)
    BY <1>8 DEF FlushFull
  <2>3. r \in FlushImpl /\ mode # "closed" /\ UNCHANGED <<mode, appending, wanted, out>>
    BY <1>8, <2>1 DEF FlushImpl, FlushFull, opened
  <2> QED
    BY <1>7, <2>2, <2>3
<1>9. CASE Flush
  <2>1. PICK r \in FlushImpl :
          /\ file' = r.file /\ offset' = r.offset /\ buffer' = r.buffer
          /\ failed' = (failed \/ r.error)
    BY <1>9 DEF Flush
  <2>2. mode # "closed" /\ UNCHANGED <<mode, appending, wanted, out>>
    BY <1>9 DEF Flush, opened
  <2> QED
    BY <1>7, <2>1, <2>2
<1>10. ASSUME NEW n \in 1 .. MaxSlice, Read(n)
       PROVE  UNCHANGED Unbuffered!vars
  BY <1>10, SamePos DEF Read, Unbuffered!vars, opened
<1>11. CASE FillBuffer
  <2>1. mode = "reading" /\ Pos' = Pos
    BY <1>11, FillKeeps
  <2>2. UNCHANGED <<mode, appending, file, out, failed>>
    BY <1>11 DEF FillBuffer, opened
  <2> QED
    BY <2>1, <2>2, OtherPos, OtherPosNext DEF Unbuffered!vars
<1>12. CASE FillFails \/ FillRefused
  BY <1>12 DEF FillFails, FillRefused, FillError, Unbuffered!Next, Unbuffered!Fails
<1>13. CASE ReadByte
  <2>1. /\ mode = "reading"
        /\ \/ /\ Pos \in Nat /\ Pos + 1 <= Len(file) /\ out' = file[Pos + 1] /\ Pos' = Pos + 1
           \/ Pos >= Len(file) /\ Pos' = Pos
    BY <1>13, ReadKeeps
  <2>2. UNCHANGED <<mode, appending, file, failed>>
    BY <1>13 DEF ReadByte, opened
  <2>3. Content' = Content /\ Content = file
    BY <2>1, <2>2, OtherPos, OtherPosNext
  <2>4. CASE Pos + 1 <= Len(file) /\ out' = file[Pos + 1] /\ Pos' = Pos + 1
    BY <2>2, <2>3, <2>4 DEF Unbuffered!Next, Unbuffered!GetByte, Unbuffered!Get
  <2>5. CASE Pos >= Len(file) /\ Pos' = Pos
    BY <2>2, <2>3, <2>5 DEF Unbuffered!Next, Unbuffered!GetAtEnd
  <2> QED
    BY <2>1, <2>4, <2>5
<1>14. ASSUME NEW whence \in {"start", "current", "end"}, NEW n \in Distance,
              Seek(whence, n)
       PROVE  [Unbuffered!Next]_(Unbuffered!vars)
  <2>1. CASE ~failed'
    <3>1. Content' = Content /\ Pos' \in Nat /\ UNCHANGED <<mode, appending, out, failed>>
      BY <1>14, <2>1, SeekMoves
    <3> QED
      BY <3>1 DEF Unbuffered!Next, Unbuffered!Seek
  <2>2. CASE failed'
    <3>1. failed' \in BOOLEAN
      BY StreamStep DEF StreamInv, TypeOK
    <3>2. failed' = TRUE
      BY <2>2, <3>1
    <3> QED
      BY <3>2 DEF Unbuffered!Next, Unbuffered!Fails
  <2> QED
    BY <2>1, <2>2
<1>15. CASE UNCHANGED vars
  BY <1>15, SamePos DEF vars, Unbuffered!vars, opened
<1>16. (\E m \in {"reading", "writing"}, truncate, append \in BOOLEAN, c \in BufferSizes :
          Open(m, truncate, append, c))
         \/ (\E truncate \in BOOLEAN : OpenFails(truncate))
         => Unbuffered!Next
  BY <1>2, <1>3 DEF Unbuffered!Next
<1>17. CASE PushFaults
  BY <1>17, SamePos DEF PushFaults, Unbuffered!vars, opened
<1> QED
  BY <1>4, <1>5, <1>6, <1>8, <1>9, <1>10, <1>11, <1>12, <1>13, <1>14, <1>15, <1>16, <1>17
     DEF Next

\* With its buffer laid over the file, the stream of lib/io/fstream.c is a stream
\* without a buffer: no byte is lost, repeated or misplaced by buffering, flushes and
\* seeks, unless the system cuts writes short.
THEOREM StreamImplementsByteStream ==
  ASSUME "short" \notin Faults
  PROVE  Spec => ImplementsByteStream
<1>1. Init => Unbuffered!Init
  <2>1. SUFFICES ASSUME Init PROVE Unbuffered!Init
    OBVIOUS
  <2>2. file \in Seq(FileByte) /\ mode = "closed"
    BY <2>1, StreamInit DEF StreamInv, TypeOK, Init
  <2>3. Content = file /\ Pos = 0
    BY <2>2, OtherPos
  <2> QED
    BY <2>1, <2>2, <2>3 DEF Init, Unbuffered!Init, FileByte
<1>2. StreamInv /\ [Next]_vars => [Unbuffered!Next]_(Unbuffered!vars)
  BY StreamRefines
<1> QED
  BY <1>1, <1>2, StreamInvariant, PTL DEF Spec, ImplementsByteStream, Unbuffered!Spec

-----------------------------------------------------------------------------
(* The stream in memory                                                    *)

Cell == FileByte \cup {Garbage}

\* The bytes of the stream: its first cells.
Written == SubSeq(cells, 1, length)

\* What no run has to say of the stream in memory: what its parts are.
MemInv ==
  /\ cells \in Seq(Cell) /\ length \in Nat /\ memPos \in Nat
  /\ NoGaps

LEMMA MemSame ==
  /\ NoGaps <=> /\ length <= Len(cells) /\ memPos <= length
                /\ \A i \in 1 .. length : cells[i] \in Byte
  /\ \A f, p, w : Mem!Overwrite(f, p, w) = Overwrite(f, p, w)
  /\ \A f, p, w : Mem!Stream!Overwrite(f, p, w) = Overwrite(f, p, w)
BY DEF NoGaps, Mem!NoGaps, Mem!CellCount, Mem!Overwrite, Mem!Stream!Overwrite, Overwrite,
       Mem!Larger, Mem!Stream!Larger, Larger

LEMMA MemConstants == Capacities \subseteq Nat /\ MaxSlice \in Nat /\ MaxPos \in Nat
BY InstancesOK DEF Mem!ConstantsOK

\* The bytes of the stream as a sequence.
LEMMA WrittenFacts ==
  ASSUME MemInv
  PROVE  /\ Written \in Seq(FileByte) /\ Len(Written) = length
         /\ \A i \in 1 .. length : Written[i] = cells[i]
<1>1. /\ cells \in Seq(Cell) /\ length \in Nat /\ Len(cells) \in Nat
      /\ length <= Len(cells) /\ \A i \in 1 .. length : cells[i] \in Byte
  BY MemSame, LenProperties DEF MemInv
<1>2. length \in 0 .. Len(cells)
  BY <1>1
<1>3. /\ Written \in Seq(Cell) /\ Len(Written) = length
      /\ \A i \in 1 .. length : Written[i] = cells[i]
  BY <1>1, <1>2, FirstFacts DEF Written
<1>4. Written \in [1 .. length -> FileByte]
  <2>1. DOMAIN Written = 1 .. length /\ Written = [i \in 1 .. length |-> Written[i]]
    BY <1>3, LenProperties
  <2>2. \A i \in 1 .. length : Written[i] \in FileByte
    BY <1>1, <1>3 DEF FileByte
  <2> QED
    BY <2>1, <2>2
<1>5. Written \in Seq(FileByte)
  BY <1>1, <1>4, SeqDef
<1> QED
  BY <1>3, <1>5

LEMMA WrittenNext == (MemInv => /\ Written \in Seq(FileByte) /\ Len(Written) = length
                                /\ \A i \in 1 .. length : Written[i] = cells[i])'
<1>1. MemInv => /\ Written \in Seq(FileByte) /\ Len(Written) = length
                /\ \A i \in 1 .. length : Written[i] = cells[i]
  BY WrittenFacts
<1> QED
  BY <1>1, PTL

\* A write: the invariant is kept, and the bytes are those written over.
LEMMA MemWrites ==
  ASSUME MemInv, NEW n \in 0 .. MaxSlice, NEW s \in [1 .. n -> Byte], Mem!Write(s)
  PROVE  /\ MemInv' /\ memPos' = memPos + n /\ UNCHANGED memOut
         /\ Written' = Overwrite(Written, memPos, s)
<1>1. n \in Nat /\ s \in Seq(Byte) /\ Len(s) = n /\ DOMAIN s = 1 .. n
  <2>1. n \in Nat
    BY MemConstants
  <2>2. s \in Seq(Byte)
    BY <2>1, SeqDef
  <2>3. Len(s) = n
    BY <2>1, <2>2, LenProperties
  <2> QED
    BY <2>1, <2>2, <2>3
<1>2. s \in Seq(FileByte) /\ s \in Seq(Cell) /\ Zero \in FileByte /\ Zero \in Cell
      /\ Garbage \in Cell
  BY <1>1, SeqLarger DEF FileByte, Cell
<1>3. /\ cells \in Seq(Cell) /\ length \in Nat /\ memPos \in Nat /\ Len(cells) \in Nat
      /\ length <= Len(cells) /\ memPos <= length
      /\ \A i \in 1 .. length : cells[i] \in Byte
  BY MemSame, LenProperties DEF MemInv
<1> DEFINE needed == IF memPos + n > length THEN memPos + n ELSE length
           grown == [i \in 1 .. needed |-> IF i <= Len(cells) THEN cells[i] ELSE Garbage]
           base == IF needed > Len(cells) THEN grown ELSE cells
<1>4. /\ length' = needed /\ cells' = Overwrite(base, memPos, s)
      /\ memPos' = memPos + n /\ UNCHANGED memOut
  BY <1>1, MemSame DEF Mem!Write, Mem!Stretched, Mem!Resized, Mem!CellCount
<1>5. needed \in Nat /\ length <= needed /\ memPos + n <= needed
      /\ (needed = length \/ needed = memPos + n)
  BY <1>1, <1>3
<1>6. /\ base \in Seq(Cell) /\ Len(base) \in Nat /\ needed <= Len(base)
      /\ \A i \in 1 .. length : base[i] = cells[i]
  <2>1. CASE needed > Len(cells)
    <3>1. \A i \in 1 .. needed : i <= Len(cells) => cells[i] \in Cell
      <4>1. \A i \in 1 .. needed : i <= Len(cells) => i \in 1 .. Len(cells)
        BY <1>3, <1>5
      <4> QED
        BY <1>3, <4>1, ElementOfSeq
    <3>2. grown \in [1 .. needed -> Cell]
      BY <1>2, <3>1
    <3>3. grown \in Seq(Cell) /\ Len(grown) = needed
      BY <1>5, <3>2, SeqDef, LenProperties
    <3>4. \A i \in 1 .. length : grown[i] = cells[i]
      <4>1. \A i \in 1 .. length : i \in 1 .. needed /\ i <= Len(cells)
        BY <1>3, <1>5
      <4> QED
        BY <4>1
    <3> QED
      BY <1>5, <2>1, <3>3, <3>4
  <2>2. CASE ~(needed > Len(cells))
    BY <1>3, <1>5, <2>2
  <2> QED
    BY <2>1, <2>2
<1> HIDE DEF needed, grown, base
<1>7. /\ cells' \in Seq(Cell) /\ Len(cells') = Len(base)
      /\ \A i \in 1 .. Len(base) :
           cells'[i] = IF i > memPos /\ i <= memPos + n THEN s[i - memPos] ELSE base[i]
  <2>1. CASE s = <<>>
    <3>1. n = 0 /\ cells' = base
      BY <1>1, <1>4, <2>1 DEF Overwrite
    <3> QED
      BY <1>3, <1>6, <3>1
  <2>2. CASE s # <<>>
    <3> DEFINE g == Overwrite(base, memPos, s)
    <3>0. base \in Seq(Cell) /\ memPos \in Nat /\ s \in Seq(Cell) /\ Zero \in Cell /\ s # <<>>
      BY <1>2, <1>3, <1>6, <2>2
    <3>1. /\ g \in Seq(Cell) /\ Len(g) = Larger(Len(base), memPos + Len(s))
          /\ \A i \in 1 .. Larger(Len(base), memPos + Len(s)) :
               g[i] = IF i > memPos /\ i <= memPos + Len(s) THEN s[i - memPos]
                      ELSE IF i <= Len(base) THEN base[i] ELSE Zero
      BY <3>0, OverwriteFacts, Zenon
    <3> HIDE DEF g
    <3>2. Larger(Len(base), memPos + Len(s)) = Len(base)
      BY <1>1, <1>3, <1>5, <1>6 DEF Larger
    <3>3. cells' = g
      BY <1>4 DEF g
    <3> QED
      BY <1>1, <3>1, <3>2, <3>3
  <2> QED
    BY <2>1, <2>2
<1>8. \A i \in 1 .. needed : cells'[i] \in Byte
  <2>1. TAKE i \in 1 .. needed
  <2>2. i \in 1 .. Len(base) /\ i \in Nat
    BY <1>5, <1>6
  <2>3. CASE i > memPos /\ i <= memPos + n
    <3>1. i - memPos \in 1 .. n
      BY <1>1, <1>3, <2>2, <2>3
    <3> QED
      BY <1>7, <2>2, <2>3, <3>1
  <2>4. CASE ~(i > memPos /\ i <= memPos + n)
    <3>1. i \in 1 .. length
      BY <1>1, <1>3, <1>5, <2>2, <2>4
    <3> QED
      BY <1>3, <1>6, <1>7, <2>2, <2>4, <3>1
  <2> QED
    BY <2>3, <2>4
<1>9. MemInv'
  <2>1. /\ cells' \in Seq(Cell) /\ length' \in Nat /\ memPos' \in Nat
        /\ length' <= Len(cells') /\ memPos' <= length'
        /\ \A i \in 1 .. length' : cells'[i] \in Byte
    BY <1>1, <1>3, <1>4, <1>5, <1>6, <1>7, <1>8
  <2>2. NoGaps'
    BY <2>1 DEF NoGaps, Mem!NoGaps, Mem!CellCount
  <2> QED
    BY <2>1, <2>2 DEF MemInv
<1>10. /\ Written' \in Seq(FileByte) /\ Len(Written') = needed
       /\ \A i \in 1 .. needed : Written'[i] = cells'[i]
  BY <1>4, <1>9, WrittenNext
<1>11. /\ Written \in Seq(FileByte) /\ Len(Written) = length
       /\ \A i \in 1 .. length : Written[i] = cells[i]
  BY WrittenFacts
<1>12. Written' = Overwrite(Written, memPos, s)
  <2> DEFINE g == Overwrite(Written, memPos, s)
  <2>1. /\ g \in Seq(FileByte) /\ Len(g) = needed
        /\ \A i \in 1 .. needed :
             g[i] = IF i > memPos /\ i <= memPos + n THEN s[i - memPos]
                    ELSE IF i <= length THEN Written[i] ELSE Zero
    <3>1. CASE s = <<>>
      <4>1. n = 0 /\ g = Written
        BY <1>1, <3>1 DEF Overwrite
      <4>2. needed = length
        BY <1>3, <1>5, <4>1
      <4>3. \A i \in 1 .. needed : ~(i > memPos /\ i <= memPos + n) /\ i <= length
        BY <1>3, <4>1, <4>2
      <4> QED
        BY <1>11, <4>1, <4>2, <4>3
    <3>2. CASE s # <<>>
      <4>0. /\ Written \in Seq(FileByte) /\ memPos \in Nat /\ s \in Seq(FileByte)
            /\ Zero \in FileByte /\ s # <<>>
        BY <1>2, <1>3, <1>11, <3>2
      <4>1. /\ g \in Seq(FileByte) /\ Len(g) = Larger(Len(Written), memPos + Len(s))
            /\ \A i \in 1 .. Larger(Len(Written), memPos + Len(s)) :
                 g[i] = IF i > memPos /\ i <= memPos + Len(s) THEN s[i - memPos]
                        ELSE IF i <= Len(Written) THEN Written[i] ELSE Zero
        BY <4>0, OverwriteFacts, Zenon
      <4> HIDE DEF g
      <4>2. Larger(Len(Written), memPos + Len(s)) = needed
        BY <1>1, <1>3, <1>5, <1>11 DEF Larger, needed
      <4> QED
        BY <1>1, <1>11, <4>1, <4>2
    <3> QED
      BY <3>1, <3>2
  <2> HIDE DEF g
  <2>2. ASSUME NEW i \in 1 .. needed
        PROVE  Written'[i] = g[i]
    <3>1. i \in 1 .. Len(base) /\ i \in Nat
      BY <1>5, <1>6
    <3>2. Written'[i] = IF i > memPos /\ i <= memPos + n THEN s[i - memPos] ELSE base[i]
      BY <1>7, <1>10, <3>1
    <3>3. CASE i > memPos /\ i <= memPos + n
      BY <2>1, <3>2, <3>3
    <3>4. CASE ~(i > memPos /\ i <= memPos + n)
      <4>1. i \in 1 .. length
        BY <1>1, <1>3, <1>5, <3>1, <3>4
      <4>2. base[i] = Written[i] /\ i <= length
        BY <1>6, <1>11, <4>1
      <4> QED
        BY <2>1, <3>2, <3>4, <4>2
    <3> QED
      BY <3>3, <3>4
  <2>3. Written' = g
    BY <1>5, <1>10, <2>1, <2>2, SeqEqual
  <2> QED
    BY <2>3 DEF g
<1> QED
  BY <1>4, <1>9, <1>12

MemCalls ==
  Mem!Stream!Next \/ Mem!Stream!CallPuts \/ Mem!Stream!CallGets \/ Mem!Stream!Dispose

\* The bytes do not change with the position.
LEMMA MemStays ==
  ASSUME MemInv, UNCHANGED <<cells, length>>, memPos' \in Nat, memPos' <= length
  PROVE  MemInv' /\ Written' = Written
<1>1. NoGaps'
  BY MemSame DEF MemInv, NoGaps, Mem!NoGaps, Mem!CellCount
<1> QED
  BY <1>1 DEF MemInv, Written

\* Each operation keeps the invariant and is one of the stream of bytes.
LEMMA MemStep ==
  ASSUME MemInv, [Mem!Next]_memVars
  PROVE  MemInv' /\ [MemCalls]_(Mem!Stream!vars)
<1>1. /\ cells \in Seq(Cell) /\ length \in Nat /\ memPos \in Nat /\ Len(cells) \in Nat
      /\ length <= Len(cells) /\ memPos <= length
      /\ \A i \in 1 .. length : cells[i] \in Byte
  BY MemSame, LenProperties DEF MemInv
<1>2. /\ Written \in Seq(FileByte) /\ Len(Written) = length
      /\ \A i \in 1 .. length : Written[i] = cells[i]
  BY WrittenFacts
<1>3. ASSUME UNCHANGED <<cells, length, memPos, memOut>>
      PROVE  MemInv' /\ [MemCalls]_(Mem!Stream!vars)
  <2>1. MemInv'
    BY <1>1, <1>3, MemStays
  <2> QED
    BY <1>3, <2>1 DEF Mem!Stream!vars
<1>4. ASSUME NEW c \in Capacities, Mem!Create(c)
      PROVE  MemInv' /\ [MemCalls]_(Mem!Stream!vars)
  <2>1. /\ cells' = [i \in 1 .. c |-> Garbage] /\ length' = 0 /\ memPos' = 0 /\ memOut' = None
    BY <1>4 DEF Mem!Create
  <2>2. c \in Nat
    BY MemConstants
  <2>3. cells' \in Seq(Cell) /\ Len(cells') = c
    <3>1. cells' \in [1 .. c -> Cell]
      BY <2>1 DEF Cell
    <3> QED
      BY <2>2, <3>1, SeqDef, LenProperties
  <2>4. NoGaps'
    BY <2>1, <2>2, <2>3 DEF NoGaps, Mem!NoGaps, Mem!CellCount
  <2>5. MemInv'
    BY <2>1, <2>3, <2>4 DEF MemInv
  <2>6. Written' = <<>>
    <3>1. Written' \in Seq(FileByte) /\ Len(Written') = 0
      BY <2>1, <2>5, WrittenNext
    <3> QED
      BY <3>1, EmptySeq
  <2>7. Mem!Stream!Open
    BY <2>1, <2>6 DEF Mem!Stream!Open, Written
  <2> QED
    BY <2>5, <2>7 DEF MemCalls, Mem!Stream!Next
<1>5. ASSUME NEW n \in 0 .. MaxSlice, NEW s \in [1 .. n -> Byte], Mem!Write(s)
      PROVE  MemInv' /\ [MemCalls]_(Mem!Stream!vars)
  <2>1. /\ MemInv' /\ memPos' = memPos + n /\ UNCHANGED memOut
        /\ Written' = Mem!Stream!Overwrite(Written, memPos, s)
    BY <1>5, MemWrites, MemSame
  <2>2. memPos' - memPos = n /\ n \in Nat
    BY <1>1, <2>1, MemConstants
  <2>3. \E t \in [1 .. n -> Byte] : Written' = Mem!Stream!Overwrite(Written, memPos, t)
    BY <2>1
  <2>4. Mem!Stream!Put(n)
    BY <2>1, <2>3 DEF Mem!Stream!Put, Mem!Stream!PutPos, Written
  <2>5. Mem!Stream!CallPuts
    BY <2>2, <2>4 DEF Mem!Stream!CallPuts, Mem!Stream!PutPos
  <2> QED
    BY <2>1, <2>5 DEF MemCalls
<1>6. ASSUME NEW n \in 0 .. MaxSlice, Mem!Read(n)
      PROVE  MemInv' /\ [MemCalls]_(Mem!Stream!vars)
  <2> DEFINE k == Mem!Available(n)
  <2>1. /\ memPos' = memPos + k /\ UNCHANGED <<cells, length>>
        /\ memOut' = IF k = 0 THEN memOut ELSE cells[memPos + k]
    BY <1>6 DEF Mem!Read
  <2>2. k \in Nat /\ memPos + k <= length
    <3>1. n \in Nat
      BY MemConstants
    <3> QED
      BY <1>1, <3>1 DEF Mem!Available
  <2> HIDE DEF k
  <2>3. memPos' \in Nat /\ memPos' <= length
    BY <1>1, <2>1, <2>2
  <2>4. MemInv' /\ Written' = Written
    BY <2>1, <2>3, MemStays
  <2>5. memPos' - memPos = k
    BY <1>1, <2>1, <2>2
  <2>6. memOut' = IF k = 0 THEN memOut ELSE Written[memPos + k]
    <3>1. k # 0 => memPos + k \in 1 .. length
      BY <1>1, <2>2
    <3> QED
      BY <1>2, <2>1, <3>1
  <2>7. Mem!Stream!Get(k)
    BY <1>2, <2>1, <2>2, <2>4, <2>6 DEF Mem!Stream!Get, Written
  <2>8. Mem!Stream!CallGets
    BY <2>2, <2>5, <2>7 DEF Mem!Stream!CallGets
  <2> QED
    BY <2>4, <2>8 DEF MemCalls
<1>7. ASSUME NEW whence \in {"start", "current", "end"}, NEW n \in 0 .. MaxPos,
             Mem!Seek(whence, n)
      PROVE  MemInv' /\ [MemCalls]_(Mem!Stream!vars)
  <2>1. /\ memPos' = Mem!SeekTarget(whence, n) /\ memPos' <= length
        /\ UNCHANGED <<cells, length, memOut>>
    BY <1>7 DEF Mem!Seek
  <2>2. memPos' \in Nat
    <3>1. n \in Nat
      BY MemConstants
    <3> QED
      BY <1>1, <2>1, <3>1 DEF Mem!SeekTarget
  <2>3. MemInv' /\ Written' = Written
    BY <2>1, <2>2, MemStays
  <2>4. Mem!Stream!Seek
    BY <2>1, <2>2, <2>3 DEF Mem!Stream!Seek, Written
  <2> QED
    BY <2>3, <2>4 DEF MemCalls, Mem!Stream!Next
<1>8. CASE Mem!Close
  <2>1. cells' = <<>> /\ length' = 0 /\ memPos' = 0 /\ UNCHANGED memOut
    BY <1>8 DEF Mem!Close
  <2>2. cells' \in Seq(Cell) /\ Len(cells') = 0
    BY <2>1
  <2>3. NoGaps'
    BY <2>1, <2>2 DEF NoGaps, Mem!NoGaps, Mem!CellCount
  <2>4. MemInv'
    BY <2>1, <2>2, <2>3 DEF MemInv
  <2>5. Written' = <<>>
    <3>1. Written' \in Seq(FileByte) /\ Len(Written') = 0
      BY <2>1, <2>4, WrittenNext
    <3> QED
      BY <3>1, EmptySeq
  <2>6. Mem!Stream!Dispose
    BY <2>1, <2>5 DEF Mem!Stream!Dispose, Written
  <2> QED
    BY <2>4, <2>6 DEF MemCalls
<1>9. ASSUME NEW n \in 0 .. MaxSlice, NEW s \in [1 .. n -> Byte], Mem!WriteFails(s)
      PROVE  MemInv' /\ [MemCalls]_(Mem!Stream!vars)
  BY <1>3, <1>9 DEF Mem!WriteFails, Mem!vars
<1>10. CASE Mem!WriteNothing
  BY <1>3, <1>10 DEF Mem!WriteNothing
<1>11. ASSUME NEW whence \in {"start", "current", "end"}, NEW n \in 0 .. MaxPos,
              Mem!SeekFails(whence, n)
       PROVE  MemInv' /\ [MemCalls]_(Mem!Stream!vars)
  BY <1>3, <1>11 DEF Mem!SeekFails, Mem!vars
<1>12. CASE UNCHANGED memVars
  BY <1>3, <1>12 DEF memVars
<1> QED
  BY <1>4, <1>5, <1>6, <1>7, <1>8, <1>9, <1>10, <1>11, <1>12 DEF Mem!Next

LEMMA MemBegins ==
  ASSUME Mem!Init
  PROVE  MemInv /\ Written = <<>>
<1>1. cells = <<>> /\ length = 0 /\ memPos = 0
  BY DEF Mem!Init
<1>2. cells \in Seq(Cell) /\ Len(cells) = 0
  BY <1>1
<1>3. MemInv
  BY <1>1, <1>2 DEF MemInv, NoGaps, Mem!NoGaps, Mem!CellCount
<1>4. Written = <<>>
  BY <1>1, <1>3, WrittenFacts, EmptySeq
<1> QED
  BY <1>3, <1>4

\* Where the streams are used one or the other, each step is one of the stream in
\* memory or leaves it alone.
LEMMA MemSteps == MCSpec => Mem!Init /\ [][Mem!Next]_memVars
<1>1. MCInit => Mem!Init
  BY DEF MCInit
<1>2. [MCNext]_<<active, vars, memVars>> => [Mem!Next]_memVars
  BY DEF MCNext
<1> QED
  BY <1>1, <1>2, PTL DEF MCSpec

\* Each byte of a stream in memory was written by a client, across growth, refused
\* growth and seeks (cu_MemStream_write, cu_MemStream_seek_impl).
THEOREM MemoryHasNoGaps == MCSpec => []NoGaps
<1>1. Mem!Init => MemInv
  BY MemBegins
<1>2. MemInv /\ [Mem!Next]_memVars => MemInv'
  BY MemStep
<1>3. MemInv => NoGaps
  BY DEF MemInv
<1> QED
  BY <1>1, <1>2, <1>3, MemSteps, PTL

\* The stream of lib/io/memstream.c is a stream of bytes: what was written comes back,
\* a call moves all its bytes or, where the bytes end, those there are.
THEOREM MemoryImplementsByteStream == MCSpec => MemImplementsByteStream
<1>1. Mem!Init => MemInv /\ Mem!Stream!Init
  <2>1. SUFFICES ASSUME Mem!Init PROVE MemInv /\ Mem!Stream!Init
    OBVIOUS
  <2>2. MemInv /\ Written = <<>> /\ <<>> \in Seq(FileByte)
    BY <2>1, MemBegins
  <2> QED
    BY <2>1, <2>2 DEF Mem!Stream!Init, Mem!Init, Written, FileByte
<1>2. MemInv /\ [Mem!Next]_memVars => MemInv' /\ [MemCalls]_(Mem!Stream!vars)
  BY MemStep
<1>3. Mem!Init /\ [][Mem!Next]_memVars => Mem!Stream!Init /\ [][MemCalls]_(Mem!Stream!vars)
  BY <1>1, <1>2, PTL
<1> QED
  BY <1>3, MemSteps, PTL DEF MemImplementsByteStream, Mem!ImplementsByteStream,
     Mem!Stream!CallsSpec, MemCalls
=============================================================================
